---- MODULE Spec2Model ----
(***************************************************************************)
(* GitCollabCollector: discovery of dual-language repositories, paginated  *)
(* artifact retrieval, keyword scoring and per-pair aggregation.           *)
(*                                                                         *)
(* Python strings are TLA+ strings (Len, \o and SubSeq act on them).  An   *)
(* optional value of the program is <<>> for None and <<v>> for v.  A key  *)
(* of a JSON object is <<>> when absent, JsonNull when present with null,  *)
(* <<v>> when present with v.                                              *)
(***************************************************************************)
EXTENDS Integers, Sequences, FiniteSets, TLC

VARIABLES
    text, matched, t_pc,          \* analyze_text: its argument, its result
    f_in, fetch,                  \* fetch_paginated_artifacts: arguments and remote, loop state
    repo_remote, repo, r_pc,      \* analyze_repo: the remote repository, its locals
    df, row_i, all_results, skipped_repos, a_pc,   \* analyze_all: its loop
    detailed_df, summary,         \* analyze_all: the two tables written
    outcomes, lookups,            \* history: what each iteration did, the answers
                                  \* to the population lookups made
    filtered_df, pair_i, repos1, repos2, candidate_repos, cand_i,
    all_repos, c_pc, output_csv,  \* collect_all_repos: its loops and its file
    before, checks                \* history: all_repos when the pair began, the
                                  \* language lookups of the pair

textVars == <<text, matched, t_pc>>
fetchVars == <<f_in, fetch>>
repoVars == <<repo_remote, repo, r_pc>>
batchVars == <<df, row_i, all_results, skipped_repos, a_pc, detailed_df, summary,
               outcomes, lookups>>
collectVars == <<filtered_df, pair_i, repos1, repos2, candidate_repos, cand_i,
                 all_repos, c_pc, output_csv, before, checks>>
vars == <<text, matched, t_pc, f_in, fetch, repo_remote, repo, r_pc,
          df, row_i, all_results, skipped_repos, a_pc, detailed_df, summary,
          outcomes, lookups,
          filtered_df, pair_i, repos1, repos2, candidate_repos, cand_i,
          all_repos, c_pc, output_csv, before, checks>>

(***************************************************************************)
(* Generic helpers                                                          *)
(***************************************************************************)
Min(a, b) == IF a <= b THEN a ELSE b

RECURSIVE SumSeq(_)
SumSeq(s) == IF s = <<>> THEN 0 ELSE Head(s) + SumSeq(Tail(s))

RECURSIVE FlattenSeq(_)
FlattenSeq(ss) == IF ss = <<>> THEN <<>> ELSE Head(ss) \o FlattenSeq(Tail(ss))

Range(s) == {s[i] : i \in 1..Len(s)}

Replicate(n, x) == [i \in 1..n |-> x]

(***************************************************************************)
(* KEYWORDS, in source order, as the list literal evaluates (the adjacent  *)
(* literals "Java Native Interface" "pybind11" are one string).            *)
(***************************************************************************)
KEYWORDS == <<
       "interop", "interoperability", "cross-language", "multi-language", "multilanguage",
       "foreign function", "foreign function interface", "FFI", "FFI binding", "FFI bindings",
       "FFI bridge", "FFI layer", "FFI wrapper", "ffi", "ffi binding", "ffi bindings", "ffi bridge",
       "ffi layer", "ffi wrapper", "foreign language interface", "foreign function call",
       "foreign code interface", "language binding", "language bindings", "language bridge",
       "interop layer", "native interface", "interop wrapper", "native binding", "native bindings",
       "platform binding", "platform bindings", "interop layer", "interlanguage wrapper",
       "interlanguage adapter", "binding generator", "interop toolkit",
       "wrapper", "glue code", "interface adapter", "interface adapters", "custom wrapper",
       "manual wiring", "binding", "bridge", "stub", "interop code", "language integration layer",
       "handwritten adapter", "adapter layer", "interlanguage adapter", "shim layer",
       "compatibility wrapper", "binding layer", "integration scaffold", "integration module",
       "wrapper module", "bridge module", "intermediate wrapper", "proxy layer", "adapter pattern",
       "interop facade", "had to write a wrapper", "had to adapt manually", "manual integration logic",
       "glue logic", "hand-coded adapter", "language glue", "bridge logic",
       "language mismatch", "interface mismatch", "type mismatch", "ABI mismatch",
       "symbol not found", "undefined reference", "signature mismatch",
       "method signature mismatch", "incompatible types", "type coercion failed",
       "binary incompatibility", "calling convention mismatch", "missing symbol", "undefined symbol",
       "unresolved external", "linker error", "linking error", "symbol clash",
       "symbol conflict", "cannot resolve symbol", "failed to link", "undefined identifier",
       "foreign function not found", "module not found", "dll not found", "so not found",
       "missing foreign declaration", "invalid cast", "foreign type error",
       "type conversion error", "wrong arity", "unexpected argument type", "wrong type at runtime",
       "SWIG", "swig", "JNI", "jni", "JNA", "jna", "JPL", "jpl", "JSR223", "jsr223", "jsr",
       "GraalVM", "graalvm", "Truffle", "truffle", "javacall", "Java Native Interfacepybind11",
       "CFFI", "cffi", "Ctypes", "ctype", "NIF", "nif", "NAPI", "napi",
       "swi-prolog-jpl", "jpl.jar", "SWI", "boost.python", "python-cffi", "python bindings",
       "foreign function interface", "libffi", "dlopen", "dlsym", "ctypeslib", "node-addon-api",
       "nan", "NAN", "node-gyp", "node-ffi", "ffi-napi", "node-FFI", "FFI-napi", "ffi-NAPI", "FFI-NAPI",
       "Native Implemented Function", "native implemented function", "port driver", "Erlang port",
       "C node", "erlang port", "c node", "polyglot context", "GraalVM interop", "Graal interop",
       "graalvm interop", "graal interop", "Graal interoperability", "graalvm interoperability",
       "graal interoperability", "IDL", "idl", "Interface Definition Language", "CORBA", "corba",
       "Thrift", "thrift", "gRPC", "grpc", "protobuf interop", "protobuf interoperability",
       "P/Invoke", "Platform Invocation", "platform invocation", "CLR interop", "clr interop",
       "COM interop", "com interop", "CLR interoperability", "clr interoperability",
       "COM interoperability", "com interoperability", "DllImport", "dllimport",
       "cbindgen", "bindgen", "Rust FFI", "Rust ffi", "rust FFI", "rust ffi",
       "Rust interoperability", "extern \"C\"",
       "integration problem", "integration issue", "integration error", "errors integrating",
       "failed integration", "integration fails", "integration failed", "manual override",
       "configuration hell", "multi-build-system", "multiple compilers", "fails to integrate",
       "can't integrate", "unable to integrate", "manual integration", "manual glue", "manual config",
       "manual fix", "manual patch", "manual adjustment", "handwritten interop", "multi-build-system",
       "multiple compilers", "toolchain mismatch", "fragile integration", "brittle integration",
       "unstable integration", "hard to maintain interop", "interop not scalable",
       "foreign predicate", "interface module", "foreign module", "foreign interface",
       "interface declaration", "external interface", "interop declaration",
       "language interface", "bridge module", "interop module",
       "foreign block", "foreign import", "foreign export",
       "native declaration", "foreign definition", "external binding",
       "module binding", "foreign section"
>>

(***************************************************************************)
(* A str is the sequence of its code points (0 .. 1114111).  Str turns a    *)
(* literal of printable ASCII into one.                                     *)
(***************************************************************************)
Ascii32 == " !\"#$%&'()*+,-./0123456789:;<=>?@ABCDEFGHIJKLMNOPQRSTUVWXYZ[\\]^_"
Ascii97 == "abcdefghijklmnopqrstuvwxyz{|}~"

\* ord(c), c printable ASCII but the backtick
Ord(c) ==
    IF \E i \in 1..Len(Ascii32) : SubSeq(Ascii32, i, i) = c
    THEN 31 + (CHOOSE i \in 1..Len(Ascii32) : SubSeq(Ascii32, i, i) = c)
    ELSE 96 + (CHOOSE i \in 1..Len(Ascii97) : SubSeq(Ascii97, i, i) = c)

Str(s) == [i \in 1..Len(s) |-> Ord(SubSeq(s, i, i))]

\* The entries of KEYWORDS as strs
KeywordPoints == [i \in 1..Len(KEYWORDS) |-> Str(KEYWORDS[i])]

(***************************************************************************)
(* str.lower() and the `in` operator on strings.  The tables are those of   *)
(* the interpreter (CPython 3.11, Unicode 14.0.0).                          *)
(***************************************************************************)
\* The code points one other code point is the lowercase of, in runs
\* <<first, last, step, offset>>: lower(c) = c + offset.
LowerRuns == <<
    <<65, 90, 1, 32>>, <<192, 214, 1, 32>>, <<216, 222, 1, 32>>, <<256, 302, 2, 1>>, <<306, 310, 2, 1>>,
    <<313, 327, 2, 1>>, <<330, 374, 2, 1>>, <<376, 376, 1, 0 - 121>>, <<377, 381, 2, 1>>, <<385, 385, 1, 210>>,
    <<386, 388, 2, 1>>, <<390, 390, 1, 206>>, <<391, 391, 1, 1>>, <<393, 394, 1, 205>>, <<395, 395, 1, 1>>,
    <<398, 398, 1, 79>>, <<399, 399, 1, 202>>, <<400, 400, 1, 203>>, <<401, 401, 1, 1>>, <<403, 403, 1, 205>>,
    <<404, 404, 1, 207>>, <<406, 406, 1, 211>>, <<407, 407, 1, 209>>, <<408, 408, 1, 1>>, <<412, 412, 1, 211>>,
    <<413, 413, 1, 213>>, <<415, 415, 1, 214>>, <<416, 420, 2, 1>>, <<422, 422, 1, 218>>, <<423, 423, 1, 1>>,
    <<425, 425, 1, 218>>, <<428, 428, 1, 1>>, <<430, 430, 1, 218>>, <<431, 431, 1, 1>>, <<433, 434, 1, 217>>,
    <<435, 437, 2, 1>>, <<439, 439, 1, 219>>, <<440, 440, 1, 1>>, <<444, 444, 1, 1>>, <<452, 452, 1, 2>>,
    <<453, 453, 1, 1>>, <<455, 455, 1, 2>>, <<456, 456, 1, 1>>, <<458, 458, 1, 2>>, <<459, 475, 2, 1>>,
    <<478, 494, 2, 1>>, <<497, 497, 1, 2>>, <<498, 500, 2, 1>>, <<502, 502, 1, 0 - 97>>, <<503, 503, 1, 0 - 56>>,
    <<504, 542, 2, 1>>, <<544, 544, 1, 0 - 130>>, <<546, 562, 2, 1>>, <<570, 570, 1, 10795>>, <<571, 571, 1, 1>>,
    <<573, 573, 1, 0 - 163>>, <<574, 574, 1, 10792>>, <<577, 577, 1, 1>>, <<579, 579, 1, 0 - 195>>, <<580, 580, 1, 69>>,
    <<581, 581, 1, 71>>, <<582, 590, 2, 1>>, <<880, 882, 2, 1>>, <<886, 886, 1, 1>>, <<895, 895, 1, 116>>,
    <<902, 902, 1, 38>>, <<904, 906, 1, 37>>, <<908, 908, 1, 64>>, <<910, 911, 1, 63>>, <<913, 929, 1, 32>>,
    <<931, 939, 1, 32>>, <<975, 975, 1, 8>>, <<984, 1006, 2, 1>>, <<1012, 1012, 1, 0 - 60>>, <<1015, 1015, 1, 1>>,
    <<1017, 1017, 1, 0 - 7>>, <<1018, 1018, 1, 1>>, <<1021, 1023, 1, 0 - 130>>, <<1024, 1039, 1, 80>>, <<1040, 1071, 1, 32>>,
    <<1120, 1152, 2, 1>>, <<1162, 1214, 2, 1>>, <<1216, 1216, 1, 15>>, <<1217, 1229, 2, 1>>, <<1232, 1326, 2, 1>>,
    <<1329, 1366, 1, 48>>, <<4256, 4293, 1, 7264>>, <<4295, 4295, 1, 7264>>, <<4301, 4301, 1, 7264>>, <<5024, 5103, 1, 38864>>,
    <<5104, 5109, 1, 8>>, <<7312, 7354, 1, 0 - 3008>>, <<7357, 7359, 1, 0 - 3008>>, <<7680, 7828, 2, 1>>, <<7838, 7838, 1, 0 - 7615>>,
    <<7840, 7934, 2, 1>>, <<7944, 7951, 1, 0 - 8>>, <<7960, 7965, 1, 0 - 8>>, <<7976, 7983, 1, 0 - 8>>, <<7992, 7999, 1, 0 - 8>>,
    <<8008, 8013, 1, 0 - 8>>, <<8025, 8031, 2, 0 - 8>>, <<8040, 8047, 1, 0 - 8>>, <<8072, 8079, 1, 0 - 8>>, <<8088, 8095, 1, 0 - 8>>,
    <<8104, 8111, 1, 0 - 8>>, <<8120, 8121, 1, 0 - 8>>, <<8122, 8123, 1, 0 - 74>>, <<8124, 8124, 1, 0 - 9>>, <<8136, 8139, 1, 0 - 86>>,
    <<8140, 8140, 1, 0 - 9>>, <<8152, 8153, 1, 0 - 8>>, <<8154, 8155, 1, 0 - 100>>, <<8168, 8169, 1, 0 - 8>>, <<8170, 8171, 1, 0 - 112>>,
    <<8172, 8172, 1, 0 - 7>>, <<8184, 8185, 1, 0 - 128>>, <<8186, 8187, 1, 0 - 126>>, <<8188, 8188, 1, 0 - 9>>, <<8486, 8486, 1, 0 - 7517>>,
    <<8490, 8490, 1, 0 - 8383>>, <<8491, 8491, 1, 0 - 8262>>, <<8498, 8498, 1, 28>>, <<8544, 8559, 1, 16>>, <<8579, 8579, 1, 1>>,
    <<9398, 9423, 1, 26>>, <<11264, 11311, 1, 48>>, <<11360, 11360, 1, 1>>, <<11362, 11362, 1, 0 - 10743>>, <<11363, 11363, 1, 0 - 3814>>,
    <<11364, 11364, 1, 0 - 10727>>, <<11367, 11371, 2, 1>>, <<11373, 11373, 1, 0 - 10780>>, <<11374, 11374, 1, 0 - 10749>>, <<11375, 11375, 1, 0 - 10783>>,
    <<11376, 11376, 1, 0 - 10782>>, <<11378, 11378, 1, 1>>, <<11381, 11381, 1, 1>>, <<11390, 11391, 1, 0 - 10815>>, <<11392, 11490, 2, 1>>,
    <<11499, 11501, 2, 1>>, <<11506, 11506, 1, 1>>, <<42560, 42604, 2, 1>>, <<42624, 42650, 2, 1>>, <<42786, 42798, 2, 1>>,
    <<42802, 42862, 2, 1>>, <<42873, 42875, 2, 1>>, <<42877, 42877, 1, 0 - 35332>>, <<42878, 42886, 2, 1>>, <<42891, 42891, 1, 1>>,
    <<42893, 42893, 1, 0 - 42280>>, <<42896, 42898, 2, 1>>, <<42902, 42920, 2, 1>>, <<42922, 42922, 1, 0 - 42308>>, <<42923, 42923, 1, 0 - 42319>>,
    <<42924, 42924, 1, 0 - 42315>>, <<42925, 42925, 1, 0 - 42305>>, <<42926, 42926, 1, 0 - 42308>>, <<42928, 42928, 1, 0 - 42258>>, <<42929, 42929, 1, 0 - 42282>>,
    <<42930, 42930, 1, 0 - 42261>>, <<42931, 42931, 1, 928>>, <<42932, 42946, 2, 1>>, <<42948, 42948, 1, 0 - 48>>, <<42949, 42949, 1, 0 - 42307>>,
    <<42950, 42950, 1, 0 - 35384>>, <<42951, 42953, 2, 1>>, <<42960, 42960, 1, 1>>, <<42966, 42968, 2, 1>>, <<42997, 42997, 1, 1>>,
    <<65313, 65338, 1, 32>>, <<66560, 66599, 1, 40>>, <<66736, 66771, 1, 40>>, <<66928, 66938, 1, 39>>, <<66940, 66954, 1, 39>>,
    <<66956, 66962, 1, 39>>, <<66964, 66965, 1, 39>>, <<68736, 68786, 1, 64>>, <<71840, 71871, 1, 32>>, <<93760, 93791, 1, 32>>,
    <<125184, 125217, 1, 34>>
>>

\* The code points that are cased and not case-ignorable, in runs
\* <<first, last, step>>.
CasedRuns == <<
    <<65, 90, 1>>, <<97, 122, 1>>, <<170, 170, 1>>, <<181, 181, 1>>, <<186, 186, 1>>,
    <<192, 214, 1>>, <<216, 246, 1>>, <<248, 442, 1>>, <<444, 447, 1>>, <<452, 659, 1>>,
    <<661, 687, 1>>, <<880, 883, 1>>, <<886, 887, 1>>, <<891, 893, 1>>, <<895, 895, 1>>,
    <<902, 904, 2>>, <<905, 906, 1>>, <<908, 910, 2>>, <<911, 929, 1>>, <<931, 1013, 1>>,
    <<1015, 1153, 1>>, <<1162, 1327, 1>>, <<1329, 1366, 1>>, <<1376, 1416, 1>>, <<4256, 4293, 1>>,
    <<4295, 4295, 1>>, <<4301, 4301, 1>>, <<4304, 4346, 1>>, <<4349, 4351, 1>>, <<5024, 5109, 1>>,
    <<5112, 5117, 1>>, <<7296, 7304, 1>>, <<7312, 7354, 1>>, <<7357, 7359, 1>>, <<7424, 7467, 1>>,
    <<7531, 7543, 1>>, <<7545, 7578, 1>>, <<7680, 7957, 1>>, <<7960, 7965, 1>>, <<7968, 8005, 1>>,
    <<8008, 8013, 1>>, <<8016, 8023, 1>>, <<8025, 8031, 2>>, <<8032, 8061, 1>>, <<8064, 8116, 1>>,
    <<8118, 8124, 1>>, <<8126, 8126, 1>>, <<8130, 8132, 1>>, <<8134, 8140, 1>>, <<8144, 8147, 1>>,
    <<8150, 8155, 1>>, <<8160, 8172, 1>>, <<8178, 8180, 1>>, <<8182, 8188, 1>>, <<8450, 8450, 1>>,
    <<8455, 8455, 1>>, <<8458, 8467, 1>>, <<8469, 8469, 1>>, <<8473, 8477, 1>>, <<8484, 8490, 2>>,
    <<8491, 8493, 1>>, <<8495, 8500, 1>>, <<8505, 8505, 1>>, <<8508, 8511, 1>>, <<8517, 8521, 1>>,
    <<8526, 8526, 1>>, <<8544, 8575, 1>>, <<8579, 8580, 1>>, <<9398, 9449, 1>>, <<11264, 11387, 1>>,
    <<11390, 11492, 1>>, <<11499, 11502, 1>>, <<11506, 11507, 1>>, <<11520, 11557, 1>>, <<11559, 11559, 1>>,
    <<11565, 11565, 1>>, <<42560, 42605, 1>>, <<42624, 42651, 1>>, <<42786, 42863, 1>>, <<42865, 42887, 1>>,
    <<42891, 42894, 1>>, <<42896, 42954, 1>>, <<42960, 42961, 1>>, <<42963, 42965, 2>>, <<42966, 42969, 1>>,
    <<42997, 42998, 1>>, <<43002, 43002, 1>>, <<43824, 43866, 1>>, <<43872, 43880, 1>>, <<43888, 43967, 1>>,
    <<64256, 64262, 1>>, <<64275, 64279, 1>>, <<65313, 65338, 1>>, <<65345, 65370, 1>>, <<66560, 66639, 1>>,
    <<66736, 66771, 1>>, <<66776, 66811, 1>>, <<66928, 66938, 1>>, <<66940, 66954, 1>>, <<66956, 66962, 1>>,
    <<66964, 66965, 1>>, <<66967, 66977, 1>>, <<66979, 66993, 1>>, <<66995, 67001, 1>>, <<67003, 67004, 1>>,
    <<68736, 68786, 1>>, <<68800, 68850, 1>>, <<71840, 71903, 1>>, <<93760, 93823, 1>>, <<119808, 119892, 1>>,
    <<119894, 119964, 1>>, <<119966, 119967, 1>>, <<119970, 119970, 1>>, <<119973, 119974, 1>>, <<119977, 119980, 1>>,
    <<119982, 119993, 1>>, <<119995, 119997, 2>>, <<119998, 120003, 1>>, <<120005, 120069, 1>>, <<120071, 120074, 1>>,
    <<120077, 120084, 1>>, <<120086, 120092, 1>>, <<120094, 120121, 1>>, <<120123, 120126, 1>>, <<120128, 120132, 1>>,
    <<120134, 120134, 1>>, <<120138, 120144, 1>>, <<120146, 120485, 1>>, <<120488, 120512, 1>>, <<120514, 120538, 1>>,
    <<120540, 120570, 1>>, <<120572, 120596, 1>>, <<120598, 120628, 1>>, <<120630, 120654, 1>>, <<120656, 120686, 1>>,
    <<120688, 120712, 1>>, <<120714, 120744, 1>>, <<120746, 120770, 1>>, <<120772, 120779, 1>>, <<122624, 122633, 1>>,
    <<122635, 122654, 1>>, <<125184, 125251, 1>>, <<127280, 127305, 1>>, <<127312, 127337, 1>>, <<127344, 127369, 1>>
>>

\* The case-ignorable code points, in runs <<first, last, step>>.
CaseIgnorableRuns == <<
    <<39, 39, 1>>, <<46, 46, 1>>, <<58, 58, 1>>, <<94, 96, 2>>, <<168, 168, 1>>,
    <<173, 175, 2>>, <<180, 180, 1>>, <<183, 184, 1>>, <<688, 879, 1>>, <<884, 885, 1>>,
    <<890, 890, 1>>, <<900, 901, 1>>, <<903, 903, 1>>, <<1155, 1161, 1>>, <<1369, 1369, 1>>,
    <<1375, 1375, 1>>, <<1425, 1469, 1>>, <<1471, 1473, 2>>, <<1474, 1476, 2>>, <<1477, 1479, 2>>,
    <<1524, 1524, 1>>, <<1536, 1541, 1>>, <<1552, 1562, 1>>, <<1564, 1564, 1>>, <<1600, 1600, 1>>,
    <<1611, 1631, 1>>, <<1648, 1648, 1>>, <<1750, 1757, 1>>, <<1759, 1768, 1>>, <<1770, 1773, 1>>,
    <<1807, 1809, 2>>, <<1840, 1866, 1>>, <<1958, 1968, 1>>, <<2027, 2037, 1>>, <<2042, 2042, 1>>,
    <<2045, 2045, 1>>, <<2070, 2093, 1>>, <<2137, 2139, 1>>, <<2184, 2184, 1>>, <<2192, 2193, 1>>,
    <<2200, 2207, 1>>, <<2249, 2306, 1>>, <<2362, 2364, 2>>, <<2369, 2376, 1>>, <<2381, 2381, 1>>,
    <<2385, 2391, 1>>, <<2402, 2403, 1>>, <<2417, 2417, 1>>, <<2433, 2433, 1>>, <<2492, 2492, 1>>,
    <<2497, 2500, 1>>, <<2509, 2509, 1>>, <<2530, 2531, 1>>, <<2558, 2558, 1>>, <<2561, 2562, 1>>,
    <<2620, 2620, 1>>, <<2625, 2626, 1>>, <<2631, 2632, 1>>, <<2635, 2637, 1>>, <<2641, 2641, 1>>,
    <<2672, 2673, 1>>, <<2677, 2677, 1>>, <<2689, 2690, 1>>, <<2748, 2748, 1>>, <<2753, 2757, 1>>,
    <<2759, 2760, 1>>, <<2765, 2765, 1>>, <<2786, 2787, 1>>, <<2810, 2815, 1>>, <<2817, 2817, 1>>,
    <<2876, 2876, 1>>, <<2879, 2881, 2>>, <<2882, 2884, 1>>, <<2893, 2893, 1>>, <<2901, 2902, 1>>,
    <<2914, 2915, 1>>, <<2946, 2946, 1>>, <<3008, 3008, 1>>, <<3021, 3021, 1>>, <<3072, 3072, 1>>,
    <<3076, 3076, 1>>, <<3132, 3134, 2>>, <<3135, 3136, 1>>, <<3142, 3144, 1>>, <<3146, 3149, 1>>,
    <<3157, 3158, 1>>, <<3170, 3171, 1>>, <<3201, 3201, 1>>, <<3260, 3260, 1>>, <<3263, 3263, 1>>,
    <<3270, 3270, 1>>, <<3276, 3277, 1>>, <<3298, 3299, 1>>, <<3328, 3329, 1>>, <<3387, 3388, 1>>,
    <<3393, 3396, 1>>, <<3405, 3405, 1>>, <<3426, 3427, 1>>, <<3457, 3457, 1>>, <<3530, 3530, 1>>,
    <<3538, 3540, 1>>, <<3542, 3542, 1>>, <<3633, 3633, 1>>, <<3636, 3642, 1>>, <<3654, 3662, 1>>,
    <<3761, 3761, 1>>, <<3764, 3772, 1>>, <<3782, 3784, 2>>, <<3785, 3789, 1>>, <<3864, 3865, 1>>,
    <<3893, 3897, 2>>, <<3953, 3966, 1>>, <<3968, 3972, 1>>, <<3974, 3975, 1>>, <<3981, 3991, 1>>,
    <<3993, 4028, 1>>, <<4038, 4038, 1>>, <<4141, 4144, 1>>, <<4146, 4151, 1>>, <<4153, 4154, 1>>,
    <<4157, 4158, 1>>, <<4184, 4185, 1>>, <<4190, 4192, 1>>, <<4209, 4212, 1>>, <<4226, 4226, 1>>,
    <<4229, 4230, 1>>, <<4237, 4237, 1>>, <<4253, 4253, 1>>, <<4348, 4348, 1>>, <<4957, 4959, 1>>,
    <<5906, 5908, 1>>, <<5938, 5939, 1>>, <<5970, 5971, 1>>, <<6002, 6003, 1>>, <<6068, 6069, 1>>,
    <<6071, 6077, 1>>, <<6086, 6086, 1>>, <<6089, 6099, 1>>, <<6103, 6103, 1>>, <<6109, 6109, 1>>,
    <<6155, 6159, 1>>, <<6211, 6211, 1>>, <<6277, 6278, 1>>, <<6313, 6313, 1>>, <<6432, 6434, 1>>,
    <<6439, 6440, 1>>, <<6450, 6450, 1>>, <<6457, 6459, 1>>, <<6679, 6680, 1>>, <<6683, 6683, 1>>,
    <<6742, 6744, 2>>, <<6745, 6750, 1>>, <<6752, 6754, 2>>, <<6757, 6764, 1>>, <<6771, 6780, 1>>,
    <<6783, 6783, 1>>, <<6823, 6823, 1>>, <<6832, 6862, 1>>, <<6912, 6915, 1>>, <<6964, 6966, 2>>,
    <<6967, 6970, 1>>, <<6972, 6972, 1>>, <<6978, 6978, 1>>, <<7019, 7027, 1>>, <<7040, 7041, 1>>,
    <<7074, 7077, 1>>, <<7080, 7081, 1>>, <<7083, 7085, 1>>, <<7142, 7144, 2>>, <<7145, 7145, 1>>,
    <<7149, 7151, 2>>, <<7152, 7153, 1>>, <<7212, 7219, 1>>, <<7222, 7223, 1>>, <<7288, 7293, 1>>,
    <<7376, 7378, 1>>, <<7380, 7392, 1>>, <<7394, 7400, 1>>, <<7405, 7405, 1>>, <<7412, 7412, 1>>,
    <<7416, 7417, 1>>, <<7468, 7530, 1>>, <<7544, 7544, 1>>, <<7579, 7679, 1>>, <<8125, 8127, 2>>,
    <<8128, 8129, 1>>, <<8141, 8143, 1>>, <<8157, 8159, 1>>, <<8173, 8175, 1>>, <<8189, 8190, 1>>,
    <<8203, 8207, 1>>, <<8216, 8217, 1>>, <<8228, 8228, 1>>, <<8231, 8231, 1>>, <<8234, 8238, 1>>,
    <<8288, 8292, 1>>, <<8294, 8303, 1>>, <<8305, 8305, 1>>, <<8319, 8319, 1>>, <<8336, 8348, 1>>,
    <<8400, 8432, 1>>, <<11388, 11389, 1>>, <<11503, 11505, 1>>, <<11631, 11631, 1>>, <<11647, 11647, 1>>,
    <<11744, 11775, 1>>, <<11823, 11823, 1>>, <<12293, 12293, 1>>, <<12330, 12333, 1>>, <<12337, 12341, 1>>,
    <<12347, 12347, 1>>, <<12441, 12446, 1>>, <<12540, 12542, 1>>, <<40981, 40981, 1>>, <<42232, 42237, 1>>,
    <<42508, 42508, 1>>, <<42607, 42610, 1>>, <<42612, 42621, 1>>, <<42623, 42623, 1>>, <<42652, 42655, 1>>,
    <<42736, 42737, 1>>, <<42752, 42785, 1>>, <<42864, 42864, 1>>, <<42888, 42890, 1>>, <<42994, 42996, 1>>,
    <<43000, 43001, 1>>, <<43010, 43010, 1>>, <<43014, 43014, 1>>, <<43019, 43019, 1>>, <<43045, 43046, 1>>,
    <<43052, 43052, 1>>, <<43204, 43205, 1>>, <<43232, 43249, 1>>, <<43263, 43263, 1>>, <<43302, 43309, 1>>,
    <<43335, 43345, 1>>, <<43392, 43394, 1>>, <<43443, 43443, 1>>, <<43446, 43449, 1>>, <<43452, 43453, 1>>,
    <<43471, 43471, 1>>, <<43493, 43494, 1>>, <<43561, 43566, 1>>, <<43569, 43570, 1>>, <<43573, 43574, 1>>,
    <<43587, 43587, 1>>, <<43596, 43596, 1>>, <<43632, 43632, 1>>, <<43644, 43644, 1>>, <<43696, 43698, 2>>,
    <<43699, 43700, 1>>, <<43703, 43704, 1>>, <<43710, 43711, 1>>, <<43713, 43713, 1>>, <<43741, 43741, 1>>,
    <<43756, 43757, 1>>, <<43763, 43764, 1>>, <<43766, 43766, 1>>, <<43867, 43871, 1>>, <<43881, 43883, 1>>,
    <<44005, 44005, 1>>, <<44008, 44008, 1>>, <<44013, 44013, 1>>, <<64286, 64286, 1>>, <<64434, 64450, 1>>,
    <<65024, 65039, 1>>, <<65043, 65043, 1>>, <<65056, 65071, 1>>, <<65106, 65106, 1>>, <<65109, 65109, 1>>,
    <<65279, 65279, 1>>, <<65287, 65287, 1>>, <<65294, 65294, 1>>, <<65306, 65306, 1>>, <<65342, 65344, 2>>,
    <<65392, 65392, 1>>, <<65438, 65439, 1>>, <<65507, 65507, 1>>, <<65529, 65531, 1>>, <<66045, 66045, 1>>,
    <<66272, 66272, 1>>, <<66422, 66426, 1>>, <<67456, 67461, 1>>, <<67463, 67504, 1>>, <<67506, 67514, 1>>,
    <<68097, 68099, 1>>, <<68101, 68102, 1>>, <<68108, 68111, 1>>, <<68152, 68154, 1>>, <<68159, 68159, 1>>,
    <<68325, 68326, 1>>, <<68900, 68903, 1>>, <<69291, 69292, 1>>, <<69446, 69456, 1>>, <<69506, 69509, 1>>,
    <<69633, 69633, 1>>, <<69688, 69702, 1>>, <<69744, 69744, 1>>, <<69747, 69748, 1>>, <<69759, 69761, 1>>,
    <<69811, 69814, 1>>, <<69817, 69818, 1>>, <<69821, 69821, 1>>, <<69826, 69826, 1>>, <<69837, 69837, 1>>,
    <<69888, 69890, 1>>, <<69927, 69931, 1>>, <<69933, 69940, 1>>, <<70003, 70003, 1>>, <<70016, 70017, 1>>,
    <<70070, 70078, 1>>, <<70089, 70092, 1>>, <<70095, 70095, 1>>, <<70191, 70193, 1>>, <<70196, 70198, 2>>,
    <<70199, 70199, 1>>, <<70206, 70206, 1>>, <<70367, 70367, 1>>, <<70371, 70378, 1>>, <<70400, 70401, 1>>,
    <<70459, 70460, 1>>, <<70464, 70464, 1>>, <<70502, 70508, 1>>, <<70512, 70516, 1>>, <<70712, 70719, 1>>,
    <<70722, 70724, 1>>, <<70726, 70726, 1>>, <<70750, 70750, 1>>, <<70835, 70840, 1>>, <<70842, 70842, 1>>,
    <<70847, 70848, 1>>, <<70850, 70851, 1>>, <<71090, 71093, 1>>, <<71100, 71101, 1>>, <<71103, 71104, 1>>,
    <<71132, 71133, 1>>, <<71219, 71226, 1>>, <<71229, 71231, 2>>, <<71232, 71232, 1>>, <<71339, 71341, 2>>,
    <<71344, 71349, 1>>, <<71351, 71351, 1>>, <<71453, 71455, 1>>, <<71458, 71461, 1>>, <<71463, 71467, 1>>,
    <<71727, 71735, 1>>, <<71737, 71738, 1>>, <<71995, 71996, 1>>, <<71998, 71998, 1>>, <<72003, 72003, 1>>,
    <<72148, 72151, 1>>, <<72154, 72155, 1>>, <<72160, 72160, 1>>, <<72193, 72202, 1>>, <<72243, 72248, 1>>,
    <<72251, 72254, 1>>, <<72263, 72263, 1>>, <<72273, 72278, 1>>, <<72281, 72283, 1>>, <<72330, 72342, 1>>,
    <<72344, 72345, 1>>, <<72752, 72758, 1>>, <<72760, 72765, 1>>, <<72767, 72767, 1>>, <<72850, 72871, 1>>,
    <<72874, 72880, 1>>, <<72882, 72883, 1>>, <<72885, 72886, 1>>, <<73009, 73014, 1>>, <<73018, 73020, 2>>,
    <<73021, 73023, 2>>, <<73024, 73029, 1>>, <<73031, 73031, 1>>, <<73104, 73105, 1>>, <<73109, 73111, 2>>,
    <<73459, 73460, 1>>, <<78896, 78904, 1>>, <<92912, 92916, 1>>, <<92976, 92982, 1>>, <<92992, 92995, 1>>,
    <<94031, 94031, 1>>, <<94095, 94111, 1>>, <<94176, 94177, 1>>, <<94179, 94180, 1>>, <<110576, 110579, 1>>,
    <<110581, 110587, 1>>, <<110589, 110590, 1>>, <<113821, 113822, 1>>, <<113824, 113827, 1>>, <<118528, 118573, 1>>,
    <<118576, 118598, 1>>, <<119143, 119145, 1>>, <<119155, 119170, 1>>, <<119173, 119179, 1>>, <<119210, 119213, 1>>,
    <<119362, 119364, 1>>, <<121344, 121398, 1>>, <<121403, 121452, 1>>, <<121461, 121461, 1>>, <<121476, 121476, 1>>,
    <<121499, 121503, 1>>, <<121505, 121519, 1>>, <<122880, 122886, 1>>, <<122888, 122904, 1>>, <<122907, 122913, 1>>,
    <<122915, 122916, 1>>, <<122918, 122922, 1>>, <<123184, 123197, 1>>, <<123566, 123566, 1>>, <<123628, 123631, 1>>,
    <<125136, 125142, 1>>, <<125252, 125259, 1>>, <<127995, 127999, 1>>, <<917505, 917505, 1>>, <<917536, 917631, 1>>,
    <<917760, 917999, 1>>
>>

InRun(c, run) == c >= run[1] /\ c <= run[2] /\ (c - run[1]) % run[3] = 0

InRuns(c, runs) == \E k \in 1..Len(runs) : InRun(c, runs[k])

\* The lowercase of a code point that has one code point for it
LowerChar(c) ==
    IF InRuns(c, LowerRuns)
    THEN c + LowerRuns[CHOOSE k \in 1..Len(LowerRuns) : InRun(c, LowerRuns[k])][4]
    ELSE c

IsCaseIgnorable(c) == InRuns(c, CaseIgnorableRuns)

\* Of a code point that is not case-ignorable: it is cased.
IsCased(c) == InRuns(c, CasedRuns)

\* The first code point that is not case-ignorable before (after) position i
\* exists and is cased.
CasedBefore(s, i) ==
    \E j \in 1..(i - 1) :
        /\ ~IsCaseIgnorable(s[j]) /\ IsCased(s[j])
        /\ \A k \in (j + 1)..(i - 1) : IsCaseIgnorable(s[k])

CasedAfter(s, i) ==
    \E j \in (i + 1)..Len(s) :
        /\ ~IsCaseIgnorable(s[j]) /\ IsCased(s[j])
        /\ \A k \in (i + 1)..(j - 1) : IsCaseIgnorable(s[k])

CAPITAL_SIGMA == 931
CAPITAL_I_WITH_DOT == 304

\* GREEK CAPITAL LETTER SIGMA lowers to the final sigma at the end of a word.
handle_capital_sigma(s, i) ==
    IF CasedBefore(s, i) /\ ~CasedAfter(s, i) THEN 962 ELSE 963

\* What str.lower() puts for the code point at position i of s
LowerAt(s, i) ==
    IF s[i] = CAPITAL_SIGMA THEN <<handle_capital_sigma(s, i)>>
    ELSE IF s[i] = CAPITAL_I_WITH_DOT THEN <<105, 775>>
    ELSE <<LowerChar(s[i])>>

Lower(s) == FlattenSeq([i \in 1..Len(s) |-> LowerAt(s, i)])

\* sub in s
Contains(s, sub) ==
    \E i \in 1..(Len(s) - Len(sub) + 1) : SubSeq(s, i, i + Len(sub) - 1) = sub

KeywordsIn(low) ==
    SelectSeq([i \in 1..Len(KEYWORDS) |-> i], LAMBDA i : Contains(low, KeywordPoints[i]))

\* analyze_text(text): [kw for kw in KEYWORDS if kw in text.lower()]
analyze_text(t) ==
    LET hits == KeywordsIn(Lower(t)) IN [j \in 1..Len(hits) |-> KEYWORDS[hits[j]]]

(***************************************************************************)
(* The remote collection, as fetch_paginated_artifacts sees it: a list of  *)
(* items served in pages of per_page items, and possibly one page whose    *)
(* request fails, by a non-200 status or by requests.get raising.          *)
(* An item is [id, pull_request]: pull_request is the presence of the      *)
(* "pull_request" key in the JSON object.                                   *)
(***************************************************************************)
MaxPerPage == 2
MaxPages == 3
MaxItems == 6

HTTP_OK == 200

OkResponse(items) == [raises |-> FALSE, status_code |-> HTTP_OK, json |-> items]
StatusResponse(code) == [raises |-> FALSE, status_code |-> code, json |-> <<>>]
RaisingRequest == [raises |-> TRUE, status_code |-> 0, json |-> <<>>]

FailureKinds == {"status", "exception"}

\* The items of page `page` (1-based) when the collection is cut in pages of per_page.
PageSlice(items, per_page, page) ==
    SubSeq(items, (page - 1) * per_page + 1, Min(page * per_page, Len(items)))

\* requests.get(url, params={"per_page": per_page, "page": page}) against the remote.
Serve(remote, per_page, page) ==
    IF remote.fail_page = page
    THEN IF remote.fail_kind = "exception" THEN RaisingRequest
         ELSE StatusResponse(403)
    ELSE OkResponse(PageSlice(remote.items, per_page, page))

(***************************************************************************)
(* fetch_paginated_artifacts                                                *)
(***************************************************************************)
\* skip_condition: FALSE is None, TRUE is fetch_issues' lambda i: "pull_request" in i
skip_condition(skip, item) == skip /\ item.pull_request

KeepItemsUnfiltered(items, skip) == items

\* for item in items: if skip_condition and skip_condition(item): continue; append
KeepItems(items, skip) == SelectSeq(items, LAMBDA item : ~skip_condition(skip, item))

ShortPageOrFull(items, per_page) == Len(items) <= per_page

\* if len(items) < per_page: break
ShortPage(items, per_page) == Len(items) < per_page

BreakAfterKept(items, per_page, skip) == ShortPage(KeepItems(items, skip), per_page)

\* The break after the page's items were appended: items is response.json(),
\* the page as received, whatever skip_condition kept of it.
BreakAfterPage(items, per_page, skip) == ShortPage(items, per_page)

OnBadStatusDiscarding(st) == [st EXCEPT !.pc = "done", !.all_items = <<>>]

\* if response.status_code != 200: log; break   (all_items is left as it is)
OnBadStatus(st) == [st EXCEPT !.pc = "done"]

\* all_items = []; for page in range(1, max_pages + 1)
FetchStart(max_pages) ==
    [page |-> 1, all_items |-> <<>>, requests |-> <<>>,
     pc |-> IF max_pages >= 1 THEN "request" ELSE "done"]

\* One iteration of the loop, given what requests.get did for st.page.
\* requests is the history of the pages asked for; pc "raised" is the exception
\* of requests.get leaving the function (nothing in it catches).
FetchIteration(st, resp, per_page, max_pages, skip) ==
    LET asked == [st EXCEPT !.requests = Append(@, st.page)] IN
    IF resp.raises THEN [asked EXCEPT !.pc = "raised"]
    ELSE IF resp.status_code # HTTP_OK THEN OnBadStatus(asked)
    ELSE IF resp.json = <<>> THEN [asked EXCEPT !.pc = "done"]
    ELSE LET got == [asked EXCEPT !.all_items = @ \o KeepItems(resp.json, skip)] IN
         IF BreakAfterPage(resp.json, per_page, skip) THEN [got EXCEPT !.pc = "done"]
         ELSE IF st.page = max_pages THEN [got EXCEPT !.pc = "done"]
         ELSE [got EXCEPT !.page = @ + 1]

RECURSIVE RunFetch(_, _, _, _, _)
RunFetch(st, remote, per_page, max_pages, skip) ==
    IF st.pc # "request" THEN st
    ELSE RunFetch(FetchIteration(st, Serve(remote, per_page, st.page),
                                 per_page, max_pages, skip),
                  remote, per_page, max_pages, skip)

\* The whole call: the final loop state (pc "done": returns all_items; "raised").
fetch_paginated_artifacts(remote, per_page, max_pages, skip) ==
    RunFetch(FetchStart(max_pages), remote, per_page, max_pages, skip)

(***************************************************************************)
(* fetch_pull_requests, fetch_issues (their default arguments)              *)
(***************************************************************************)
PER_PAGE == 100
PR_MAX_PAGES == 50
ISSUE_MAX_PAGES == 10

fetch_pull_requests(remote) ==
    fetch_paginated_artifacts(remote, PER_PAGE, PR_MAX_PAGES, FALSE)

fetch_issues(remote) ==
    fetch_paginated_artifacts(remote, PER_PAGE, ISSUE_MAX_PAGES, TRUE)

(***************************************************************************)
(* base64.b64decode(content) as binascii.a2b_base64 decodes without strict *)
(* mode, then bytes.decode("utf-8", errors="ignore").  The decoder state is *)
(* [quad_pos, leftchar, pads, out, stop]; out is a list of byte values.     *)
(***************************************************************************)
\* content.encode("ascii") succeeds on the code point.
IsAscii(c) == c < 128

B64Alphabet == "ABCDEFGHIJKLMNOPQRSTUVWXYZabcdefghijklmnopqrstuvwxyz0123456789+/"
B64Points == Str(B64Alphabet)
B64_PAD == 61

\* The 6-bit value of a character, 64 for a character outside the alphabet.
B64Value(c) ==
    LET hits == {i \in 1..Len(B64Points) : B64Points[i] = c}
    IN  IF hits = {} THEN 64 ELSE (CHOOSE i \in hits : TRUE) - 1

B64Feed(d, c) ==
    IF d.stop THEN d
    ELSE IF c = B64_PAD
    THEN IF d.quad_pos >= 2 /\ d.quad_pos + d.pads + 1 >= 4
         THEN [d EXCEPT !.pads = @ + 1, !.stop = TRUE]
         ELSE IF d.quad_pos >= 2 THEN [d EXCEPT !.pads = @ + 1] ELSE d
    ELSE LET v == B64Value(c) IN
         IF v >= 64 THEN d
         ELSE CASE d.quad_pos = 0 ->
                     [d EXCEPT !.pads = 0, !.quad_pos = 1, !.leftchar = v]
                [] d.quad_pos = 1 ->
                     [d EXCEPT !.pads = 0, !.quad_pos = 2, !.leftchar = v % 16,
                               !.out = Append(@, d.leftchar * 4 + v \div 16)]
                [] d.quad_pos = 2 ->
                     [d EXCEPT !.pads = 0, !.quad_pos = 3, !.leftchar = v % 4,
                               !.out = Append(@, d.leftchar * 16 + v \div 4)]
                [] d.quad_pos = 3 ->
                     [d EXCEPT !.pads = 0, !.quad_pos = 0, !.leftchar = 0,
                               !.out = Append(@, d.leftchar * 64 + v)]

RECURSIVE B64Run(_, _)
B64Run(d, s) ==
    IF s = <<>> THEN d
    ELSE B64Run(B64Feed(d, Head(s)), Tail(s))

\* [error, bytes]: error is the ValueError of a str holding a non-ASCII
\* character, or binascii.Error ("Incorrect padding", ...).
b64decode(s) ==
    LET d == B64Run([quad_pos |-> 0, leftchar |-> 0, pads |-> 0,
                     out |-> <<>>, stop |-> FALSE], s)
    IN  [error |-> (\E i \in 1..Len(s) : ~IsAscii(s[i]))
                   \/ (~d.stop /\ d.quad_pos # 0),
         bytes |-> d.out]

\* The number of continuation bytes a lead byte asks for, -1 for a byte that
\* cannot start a sequence.
Utf8Need(b) ==
    IF b < 128 THEN 0
    ELSE IF b >= 194 /\ b <= 223 THEN 1
    ELSE IF b >= 224 /\ b <= 239 THEN 2
    ELSE IF b >= 240 /\ b <= 244 THEN 3
    ELSE 0 - 1

\* Byte b may stand at position pos (1, 2, 3) after lead byte b1.
Utf8ContinuationOk(b1, pos, b) ==
    LET lo == IF pos = 1 /\ b1 = 224 THEN 160
              ELSE IF pos = 1 /\ b1 = 240 THEN 144 ELSE 128
        hi == IF pos = 1 /\ b1 = 237 THEN 159
              ELSE IF pos = 1 /\ b1 = 244 THEN 143 ELSE 191
    IN  b >= lo /\ b <= hi

\* How many of the bytes after the lead byte continue its sequence, up to need.
RECURSIVE Utf8Continued(_, _, _)
Utf8Continued(bytes, need, k) ==
    IF k < need /\ k + 2 <= Len(bytes) /\ Utf8ContinuationOk(bytes[1], k + 1, bytes[k + 2])
    THEN Utf8Continued(bytes, need, k + 1)
    ELSE k

\* The code point of a complete sequence
Utf8CodePoint(bytes, need) ==
    IF need = 0 THEN bytes[1]
    ELSE IF need = 1 THEN (bytes[1] - 192) * 64 + (bytes[2] - 128)
    ELSE IF need = 2
    THEN (bytes[1] - 224) * 4096 + (bytes[2] - 128) * 64 + (bytes[3] - 128)
    ELSE (bytes[1] - 240) * 262144 + (bytes[2] - 128) * 4096
         + (bytes[3] - 128) * 64 + (bytes[4] - 128)

\* bytes.decode("utf-8", errors="ignore"): a byte that starts no sequence is
\* dropped, and so is a sequence cut short, up to the byte that breaks it.
RECURSIVE decode_utf8_ignore(_)
decode_utf8_ignore(bytes) ==
    IF bytes = <<>> THEN <<>>
    ELSE LET need == Utf8Need(bytes[1])
             k == IF need > 0 THEN Utf8Continued(bytes, need, 0) ELSE 0
         IN  IF need < 0 THEN decode_utf8_ignore(Tail(bytes))
             ELSE IF k = need
             THEN <<Utf8CodePoint(bytes, need)>>
                  \o decode_utf8_ignore(SubSeq(bytes, need + 2, Len(bytes)))
             ELSE decode_utf8_ignore(SubSeq(bytes, k + 2, Len(bytes)))

(***************************************************************************)
(* fetch_readme.  The response is [raises, status_code, json], json the     *)
(* object [content, encoding], each optional and a str.  The result is      *)
(* [raised, text]: raised is the exception of requests.get leaving the      *)
(* function.                                                                *)
(***************************************************************************)
JsonNull == <<"null", "null">>

\* dict.get(key): None for an absent key and for null.
Get(field) == IF field = <<>> \/ field = JsonNull THEN <<>> ELSE field

\* dict.get(key, default): the default for an absent key only, None for null.
GetOr(field, default) ==
    IF field = <<>> THEN <<default>> ELSE IF field = JsonNull THEN <<>> ELSE field

\* x or ""
OrEmpty(x) == IF x = <<>> THEN Str("") ELSE x[1]

ReadmeOnBadStatus == Str("")

fetch_readme(resp) ==
    IF resp.raises THEN [raised |-> TRUE, text |-> Str("")]
    ELSE IF resp.status_code # HTTP_OK THEN [raised |-> FALSE, text |-> ReadmeOnBadStatus]
    ELSE LET content == GetOr(resp.json.content, Str(""))
             encoding == GetOr(resp.json.encoding, Str("base64"))
         IN  IF encoding = <<Str("base64")>>
             THEN IF content = <<>>
                  THEN [raised |-> FALSE, text |-> Str("")]   \* TypeError, caught
                  ELSE LET dec == b64decode(content[1])
                       IN  [raised |-> FALSE,
                            text |-> IF dec.error THEN Str("")
                                     ELSE decode_utf8_ignore(dec.bytes)]
             ELSE [raised |-> FALSE, text |-> Str("")]

(***************************************************************************)
(* The artifacts and README payloads the remote repositories are made of.   *)
(***************************************************************************)
ArtifactKinds == {"plain", "keyword", "rich", "marked"}

ArtifactOfKind(kind, i) ==
    CASE kind = "plain" ->
           [id |-> i, pull_request |-> FALSE, title |-> <<Str("Fix typo")>>, body |-> <<>>]
      [] kind = "keyword" ->
           [id |-> i, pull_request |-> FALSE, title |-> <<Str("wrapper")>>, body |-> JsonNull]
      [] kind = "rich" ->
           [id |-> i, pull_request |-> FALSE, title |-> <<>>,
            body |-> <<Str("JNI Wrapper: interop layer")>>]
      [] kind = "marked" ->
           [id |-> i, pull_request |-> TRUE, title |-> <<Str("Add FFI bridge")>>,
            body |-> <<Str("")>>]

MakeList(kinds) == [i \in 1..Len(kinds) |-> ArtifactOfKind(kinds[i], i)]

\* The README contents are the base64 of: nothing; "Interop layer";
\* "Fix typo" in two lines; "wrapper" without padding, undeclared as base64,
\* and beside a null encoding; null; a text with a tab, a backtick and
\* E WITH ACUTE;
\* "lin" KELVIN SIGN "er error"; "FF" CAPITAL I WITH DOT ABOVE; none.
ReadmeJsons ==
    { [content |-> <<Str("")>>, encoding |-> <<Str("base64")>>],
      [content |-> <<Str("SW50ZXJvcCBsYXllcg==")>>, encoding |-> <<>>],
      [content |-> <<Str("Rml4") \o <<10>> \o Str("IHR5cG8=") \o <<10>>>>,
       encoding |-> <<Str("base64")>>],
      [content |-> <<Str("d3JhcHBlcg")>>, encoding |-> <<Str("base64")>>],
      [content |-> <<Str("wrapper")>>, encoding |-> <<Str("none")>>],
      [content |-> <<Str("d3JhcHBlcg==")>>, encoding |-> JsonNull],
      [content |-> JsonNull, encoding |-> <<>>],
      [content |-> <<Str("d3JhcAlwZXIgaW50ZXJgb3Agw6ljb2xl")>>, encoding |-> <<>>],
      [content |-> <<Str("bGlu4oSqZXIgZXJyb3I=")>>, encoding |-> <<>>],
      [content |-> <<Str("RkbEsA==")>>, encoding |-> <<>>],
      [content |-> <<>>, encoding |-> <<>>] }

NoReadmeJson == [content |-> <<>>, encoding |-> <<>>]
StatusResponse404 == [raises |-> FALSE, status_code |-> 404, json |-> NoReadmeJson]
InteropReadme ==
    [raises |-> FALSE, status_code |-> HTTP_OK,
     json |-> [content |-> <<Str("SW50ZXJvcCBsYXllcg==")>>, encoding |-> <<>>]]

ReadmeResponses ==
    {[raises |-> FALSE, status_code |-> HTTP_OK, json |-> j] : j \in ReadmeJsons}
    \cup {StatusResponse404,
          [raises |-> TRUE, status_code |-> 0, json |-> NoReadmeJson]}

\* (x.get("title") or "") + " " + (x.get("body") or "")
ArtifactText(item) ==
    OrEmpty(Get(item.title)) \o Str(" ") \o OrEmpty(Get(item.body))

\* analyze_text on the texts of the model's artifacts and READMEs, computed once.
ScoredTexts ==
    {ArtifactText(ArtifactOfKind(k, 1)) : k \in ArtifactKinds}
    \cup {fetch_readme(r).text : r \in ReadmeResponses}
AnalyzedTexts == [t \in ScoredTexts |-> analyze_text(t)]

analyze_text_of(t) == IF t \in ScoredTexts THEN AnalyzedTexts[t] ELSE analyze_text(t)

(***************************************************************************)
(* analyze_repo                                                             *)
(***************************************************************************)
\* for pr in prs: matched_keywords.extend(analyze_text(text))
ScorePullRequests(prs) ==
    FlattenSeq([i \in 1..Len(prs) |-> analyze_text_of(ArtifactText(prs[i]))])

\* for issue in issues: if "pull_request" in issue: continue; extend(...)
ScoreIssues(issues) ==
    FlattenSeq([i \in 1..Len(issues) |->
                   IF issues[i].pull_request THEN <<>>
                   ELSE analyze_text_of(ArtifactText(issues[i]))])

TotalArtifactsWithoutReadme(pr_count, issue_count) == pr_count + issue_count

\* total_artifacts = pr_count + issue_count + 1
TotalArtifacts(pr_count, issue_count) == pr_count + issue_count + 1

\* return score, total_artifacts, pr_count, issue_count, matched_keywords
RepoResult(pr_count, issue_count, matched_keywords) ==
    [raised |-> FALSE,
     score |-> Len(matched_keywords),
     total_artifacts |-> TotalArtifacts(pr_count, issue_count),
     pr_count |-> pr_count,
     issue_count |-> issue_count,
     matched_keywords |-> matched_keywords]

\* The body of analyze_repo after the three fetches.
ScoreArtifacts(prs, issues, readme) ==
    RepoResult(Len(prs), Len(issues),
               ScorePullRequests(prs) \o ScoreIssues(issues) \o analyze_text_of(readme))

\* has_difficulty = score > 0   (analyze_all, on the score analyze_repo returns)
has_difficulty(score) == score > 0

RaisedResult ==
    [raised |-> TRUE, score |-> 0, total_artifacts |-> 0, pr_count |-> 0,
     issue_count |-> 0, matched_keywords |-> <<>>]

\* analyze_repo, given what its three fetches did: an exception of a fetch
\* leaves analyze_repo (the later fetches are then not made).
AnalyzeFetched(prs, issues, readme) ==
    IF prs.pc = "raised" THEN RaisedResult
    ELSE IF issues.pc = "raised" THEN RaisedResult
    ELSE IF readme.raised THEN RaisedResult
    ELSE ScoreArtifacts(prs.all_items, issues.all_items, readme.text)

\* analyze_repo(repo) against remote = [pulls, issues, readme].
analyze_repo(remote) ==
    AnalyzeFetched(fetch_pull_requests(remote.pulls), fetch_issues(remote.issues),
                   fetch_readme(remote.readme))

(***************************************************************************)
(* analyze_all: the batch loop                                              *)
(* A row of df is [FullName, Lang1, Lang2].  The loop state is              *)
(* [row_i, all_results, skipped_repos, outcomes, a_pc]; outcomes is the     *)
(* history of what each iteration did with its repository.                  *)
(***************************************************************************)
MIN_ARTIFACTS == 5
MAX_REPOS_ARG == 150

\* A Python float is an IEEE double: 53 significant bits, round to nearest,
\* ties to even.
MantissaBits == 53

Bit(rem, d) == IF 2 * rem >= d THEN 1 ELSE 0

Rest(rem, d) == 2 * rem - Bit(rem, d) * d

RECURSIVE BitLength(_)
BitLength(q) == IF q = 0 THEN 0 ELSE 1 + BitLength(q \div 2)

\* The sign of float(n / d) - n / d by long division: rem is the remainder
\* so far, count the significant bits produced, lsb the last of them.
RECURSIVE DoubleDirection(_, _, _, _)
DoubleDirection(rem, d, count, lsb) ==
    IF rem = 0 THEN 0
    ELSE IF count = MantissaBits
    THEN IF Bit(rem, d) = 1 /\ (Rest(rem, d) # 0 \/ lsb = 1) THEN 1 ELSE 0 - 1
    ELSE DoubleDirection(Rest(rem, d), d,
                         IF count = 0 /\ Bit(rem, d) = 0 THEN 0 ELSE count + 1,
                         Bit(rem, d))

\* n / d of two ints, as the float it is: its side of the quotient
QuotientDirection(n, d) ==
    DoubleDirection(n % d, d, BitLength(n \div d), (n \div d) % 2)

\* round() of a float on a tie of the quotient: the float's own side decides,
\* and the even neighbour when the float is the tie exactly.
RoundTie(floor, direction) ==
    IF direction > 0 THEN floor + 1
    ELSE IF direction < 0 THEN floor
    ELSE IF floor % 2 = 0 THEN floor ELSE floor + 1

\* v / d to the nearest integer, direction deciding a tie
RoundAt(v, d, direction) ==
    IF 2 * (v % d) < d THEN v \div d
    ELSE IF 2 * (v % d) > d THEN (v \div d) + 1
    ELSE RoundTie(v \div d, direction)

\* round(n / d, 4) for n >= 0 and d > 0, in ten-thousandths
Round4(n, d) ==
    RoundAt(10000 * n, d,
            IF 2 * ((10000 * n) % d) = d THEN QuotientDirection(n, d) ELSE 0)

\* The low bits of float(s / d) for 0 < s / d < 1/2: <<k, T>>, k the zero
\* bits before the first one and T the bits at binary places
\* MantissaBits .. k + MantissaBits after rounding, modulo 2^(k+1).
RECURSIVE LowBits(_, _, _, _, _, _)
LowBits(rem, d, pos, k, started, T) ==
    IF started /\ pos = k + MantissaBits + 1
    THEN <<k, (T + (IF Bit(rem, d) = 1 /\ (Rest(rem, d) # 0 \/ T % 2 = 1)
                    THEN 1 ELSE 0)) % (2 ^ (k + 1))>>
    ELSE LowBits(Rest(rem, d), d, pos + 1,
                 IF ~started /\ Bit(rem, d) = 0 THEN k + 1 ELSE k,
                 started \/ Bit(rem, d) = 1,
                 IF pos >= MantissaBits THEN 2 * T + Bit(rem, d) ELSE T)

\* The side of 1 - x the float 1 - x falls on, x a float below 1/2 with the
\* low bits lb: the difference is rounded at binary place MantissaBits.
LowBitsDirection(lb, exact) ==
    IF lb[2] % (2 ^ lb[1]) = 0 THEN exact
    ELSE IF lb[2] % (2 ^ lb[1]) < 2 ^ (lb[1] - 1) THEN 1
    ELSE IF lb[2] % (2 ^ lb[1]) > 2 ^ (lb[1] - 1) THEN 0 - 1
    ELSE IF lb[2] \div (2 ^ lb[1]) = 0 THEN 1 ELSE 0 - 1

\* The sign of float(1 - float(s / d)) - (1 - s / d), for s >= 0 and d > 0:
\* from 1/2 up the subtraction is exact.
SubtractionDirection(s, d) ==
    IF s = 0 THEN 0
    ELSE IF 2 * s >= d THEN 0 - QuotientDirection(s, d)
    ELSE LowBitsDirection(LowBits(s, d, 1, 0, FALSE, 0), 0 - QuotientDirection(s, d))

\* round(1 - s / d, 4) for s >= 0 and d > 0, in ten-thousandths
Round4OneMinus(s, d) ==
    RoundAt(10000 * (d - s), d,
            IF 2 * ((10000 * (d - s)) % d) = d THEN SubtractionDirection(s, d) ELSE 0)

\* round(score / total_items, 4) if total_items else 0.0
difficulty_density(score, total_items) ==
    IF total_items # 0 THEN Round4(score, total_items) ELSE 0

BelowGatePullsOnly(pr_count, issue_count) == pr_count < MIN_ARTIFACTS

\* if pr_count < 5 or issue_count < 5
BelowGate(pr_count, issue_count) ==
    pr_count < MIN_ARTIFACTS \/ issue_count < MIN_ARTIFACTS

\* The dict appended to all_results; keywords_detected is the set that
\* "; ".join(set(keywords_found)) writes in some order.
ResultRow(row, res) ==
    [Lang1 |-> row.Lang1, Lang2 |-> row.Lang2, FullName |-> row.FullName,
     artifacts_analyzed |-> res.total_artifacts,
     difficulty_keywords_found |-> res.score,
     difficulty_density |-> difficulty_density(res.score, res.total_artifacts),
     repo_has_difficulty |-> has_difficulty(res.score),
     keywords_detected |-> Range(res.matched_keywords)]

Outcome(kind, pr_count, issue_count) ==
    [kind |-> kind, pr_count |-> pr_count, issue_count |-> issue_count]

OnAnalysisErrorAbort(st) ==
    [st EXCEPT !.a_pc = "crashed", !.outcomes = Append(@, Outcome("error", 0, 0))]

\* except Exception: logger.exception(...); continue
OnAnalysisError(st) ==
    [st EXCEPT !.row_i = @ + 1, !.outcomes = Append(@, Outcome("error", 0, 0))]

\* One iteration of `for _, row in df.iterrows()`, res being what
\* analyze_repo did.
IterationWith(st, row, res) ==
    IF res.raised THEN OnAnalysisError(st)
    ELSE IF BelowGate(res.pr_count, res.issue_count)
    THEN [st EXCEPT !.row_i = @ + 1, !.skipped_repos = @ + 1,
                    !.outcomes =
                        Append(@, Outcome("skipped", res.pr_count, res.issue_count))]
    ELSE [st EXCEPT !.row_i = @ + 1,
                    !.all_results = Append(@, ResultRow(row, res)),
                    !.outcomes =
                        Append(@, Outcome("row", res.pr_count, res.issue_count))]

BatchIteration(st, row, remote) == IterationWith(st, row, analyze_repo(remote))

(***************************************************************************)
(* analyze_all: the summary                                                 *)
(***************************************************************************)
\* The languages of github_langs in the order Python compares strings:
\* groupby sorts the group keys.
SortedLangs == <<"C", "CLU", "Curry", "E", "Erlang", "Haskell", "Java", "ML",
                 "OCaml", "Occam", "Prolog", "Scheme">>

LangRank(l) == CHOOSE i \in 1..Len(SortedLangs) : SortedLangs[i] = l

KeyLess(a, b) ==
    \/ LangRank(a[1]) < LangRank(b[1])
    \/ a[1] = b[1] /\ LangRank(a[2]) < LangRank(b[2])

\* A value is missing (NaN) in a row read from the text of an NA value.
IsMissing(value) == value = "nan"

\* groupby(['Lang1', 'Lang2']): dropna is True, a row with a missing key is
\* in no group.
GroupKeys(rows) ==
    {<<rows[i].Lang1, rows[i].Lang2>> :
        i \in {j \in 1..Len(rows) : ~IsMissing(rows[j].Lang1) /\ ~IsMissing(rows[j].Lang2)}}

SortedGroupKeys(rows) ==
    LET ks == GroupKeys(rows) IN
    CHOOSE sq \in [1..Cardinality(ks) -> ks] :
        \A i, j \in 1..Cardinality(ks) : i < j => KeyLess(sq[i], sq[j])

GroupRows(rows, key) ==
    SelectSeq(rows, LAMBDA r : r.Lang1 = key[1] /\ r.Lang2 = key[2])

\* ('FullName', 'count'): the rows of the group whose FullName is not missing
CountNames(g) == Len(SelectSeq(g, LAMBDA r : ~IsMissing(r.FullName)))

\* groupby(['Lang1','Lang2']).agg(...) and difficulty_rate, for one group.
\* A mean or a rate is the fraction [num, den]; a mean is over every row of
\* the group.
Aggregate(rows, key) ==
    LET g == GroupRows(rows, key)
        total_repos == CountNames(g)
        repos_with_difficulty ==
            Len(SelectSeq(g, LAMBDA r : r.repo_has_difficulty))
    IN  [Lang1 |-> key[1], Lang2 |-> key[2],
         total_repos |-> total_repos,
         repos_with_difficulty |-> repos_with_difficulty,
         avg_difficulty_density |->
             [num |-> SumSeq([i \in 1..Len(g) |-> g[i].difficulty_density]),
              den |-> Len(g)],
         avg_artifacts_analyzed |->
             [num |-> SumSeq([i \in 1..Len(g) |-> g[i].artifacts_analyzed]),
              den |-> Len(g)],
         difficulty_rate |-> [num |-> repos_with_difficulty, den |-> total_repos]]

\* get_total_repo_count: the response json is [total_count], optional.
\* [raised, count]: count is <<n>>, or <<>> for None.
get_total_repo_count(resp) ==
    IF resp.raises THEN [raised |-> TRUE, count |-> <<>>]
    ELSE IF resp.status_code = HTTP_OK
    THEN [raised |-> FALSE, count |-> GetOr(resp.json.total_count, 0)]
    ELSE [raised |-> FALSE, count |-> <<>>]

SampleDenominatorUncapped(true_total, max_repos) == true_total

\* min(row_rs['true_total_available'], (max_repos * 2))
SampleDenominator(true_total, max_repos) == Min(true_total, max_repos * 2)

\* round(1 - total_repos / min(...), 4) if true_total and true_total > 0 else None
\* <<>> is None.
rarity_score(total_repos, true_total, max_repos) ==
    IF true_total # <<>> /\ true_total[1] # 0 /\ true_total[1] > 0
    THEN <<Round4OneMinus(total_repos, SampleDenominator(true_total[1], max_repos))>>
    ELSE <<>>

\* A summary row: the aggregate of a group, the count get_total_repo_count
\* returned for it, and its rarity score.
SummaryRow(a, count, max_repos) ==
    [Lang1 |-> a.Lang1, Lang2 |-> a.Lang2,
     total_repos |-> a.total_repos,
     repos_with_difficulty |-> a.repos_with_difficulty,
     avg_difficulty_density |-> a.avg_difficulty_density,
     avg_artifacts_analyzed |-> a.avg_artifacts_analyzed,
     difficulty_rate |-> a.difficulty_rate,
     true_total_available |-> count,
     rarity_score |-> rarity_score(a.total_repos, count, max_repos)]

SummaryRowsOf(rows, keys, counts, max_repos) ==
    [i \in 1..Len(keys) |-> SummaryRow(Aggregate(rows, keys[i]), counts[i], max_repos)]

SummaryRows(rows, counts, max_repos) ==
    SummaryRowsOf(rows, SortedGroupKeys(rows), counts, max_repos)

(***************************************************************************)
(* generate_normalize_repo_to_analyze: fetch_repos_for_lang,                *)
(* repo_uses_both_languages, collect_all_repos                              *)
(***************************************************************************)
\* fetch_repos_for_lang: the response json is [items], optional, a list of
\* records [full_name].  An exception or a non-200 status gives [].
fetch_repos_for_lang(resp) ==
    IF resp.raises THEN <<>>
    ELSE IF resp.status_code # HTTP_OK THEN <<>>
    ELSE LET items == GetOr(resp.json.items, <<>>)
         IN  IF items = <<>> THEN <<>>   \* iterating None: TypeError, caught
             ELSE [i \in 1..Len(items[1]) |-> items[1][i].full_name]

UsesEither(languages, lang1, lang2) == lang1 \in languages \/ lang2 \in languages

\* lang1 in languages and lang2 in languages
UsesBoth(languages, lang1, lang2) == lang1 \in languages /\ lang2 \in languages

\* repo_uses_both_languages: the response json is a dict, read by its keys.
repo_uses_both_languages(resp, lang1, lang2) ==
    IF resp.raises THEN FALSE
    ELSE IF resp.status_code # HTTP_OK THEN FALSE
    ELSE UsesBoth(resp.json, lang1, lang2)

Perms(S) ==
    {sq \in [1..Cardinality(S) -> S] :
        \A i, j \in 1..Cardinality(S) : sq[i] = sq[j] => i = j}

\* list(set(repos1 + repos2)): the order a set iterates in is not fixed.
CandidateOrders(r1, r2) == Perms(Range(r1 \o r2))

\* The body of the inner loop for one candidate.
CheckCandidateStep(repos, full_name, lang1, lang2, resp) ==
    IF repo_uses_both_languages(resp, lang1, lang2)
    THEN Append(repos, [FullName |-> full_name, Lang1 |-> lang1, Lang2 |-> lang2])
    ELSE repos

\* df_out.to_csv(output_csv, index=False): a header line, then one line per
\* row, fields joined by commas.  A repository name and a language of
\* github_langs hold no comma, quote or line break, so no field is quoted.
\* A file is the sequence of its lines.
CsvHeader == "FullName,Lang1,Lang2"

CsvLine(r) == r.FullName \o "," \o r.Lang1 \o "," \o r.Lang2

to_csv(repos) == <<CsvHeader>> \o [i \in 1..Len(repos) |-> CsvLine(repos[i])]

\* The fields of a line, split at the commas.
RECURSIVE SplitFields(_)
SplitFields(line) ==
    IF \A i \in 1..Len(line) : SubSeq(line, i, i) # ","
    THEN <<line>>
    ELSE LET c == CHOOSE i \in 1..Len(line) :
                      /\ SubSeq(line, i, i) = ","
                      /\ \A j \in 1..(i - 1) : SubSeq(line, j, j) # ","
         IN  <<SubSeq(line, 1, c - 1)>> \o SplitFields(SubSeq(line, c + 1, Len(line)))

\* The strings pd.read_csv reads as a missing value; row[...] is then nan.
NAValues == {"", "#N/A", "#N/A N/A", "#NA", "-1.#IND", "-1.#QNAN", "-NaN", "-nan",
             "1.#IND", "1.#QNAN", "<NA>", "N/A", "NA", "NULL", "NaN", "None",
             "n/a", "nan", "null"}

ParseField(f) == IF f \in NAValues THEN "nan" ELSE f

ColumnOf(header, name) == CHOOSE k \in 1..Len(header) : header[k] = name

\* pd.read_csv(csv_path, sep=','): the rows under the header's columns.
read_csv(file) ==
    LET header == SplitFields(file[1])
    IN  [i \in 1..(Len(file) - 1) |->
            LET fields == SplitFields(file[i + 1])
            IN  [FullName |-> ParseField(fields[ColumnOf(header, "FullName")]),
                 Lang1 |-> ParseField(fields[ColumnOf(header, "Lang1")]),
                 Lang2 |-> ParseField(fields[ColumnOf(header, "Lang2")])]]

\* if all_repos: df_out.to_csv(output_csv).  The file is <<>> while it does
\* not exist, <<lines>> once written.
WriteRepos(repos, file) == IF repos # <<>> THEN <<to_csv(repos)>> ELSE file

(***************************************************************************)
(* Inputs                                                                   *)
(***************************************************************************)
MaxWords == 2

\* The last four are E WITH ACUTE "cole"; "lin" KELVIN SIGN "er error", whose lowercase
\* is "linker error"; "FF" CAPITAL I WITH DOT ABOVE, whose lowercase begins
\* "ffi"; and OMICRON DELTA OMICRON SIGMA, whose last letter lowers to the final sigma.
TextVocab == <<Str("wrapper"), Str("Wrapper"), Str("interop layer"), Str("FFI"),
               Str("Fix typo"), Str("binding"), Str("bridge module"),
               Str("JNI bindings"), Str("nan"), Str("x"),
               <<201>> \o Str("cole"),
               Str("lin") \o <<8490>> \o Str("er error"),
               Str("FF") \o <<304>>,
               <<927, 916, 927, 931>>>>

RECURSIVE JoinWords(_)
JoinWords(ws) ==
    IF ws = <<>> THEN Str("")
    ELSE IF Len(ws) = 1 THEN ws[1]
    ELSE ws[1] \o Str(" ") \o JoinWords(Tail(ws))

TextInputs ==
    {JoinWords(ws) : ws \in UNION {[1..n -> Range(TextVocab)] : n \in 0..MaxWords}}

\* Every marking of n items as pull-request records.
ItemLists(n) ==
    {MakeList([i \in 1..n |-> IF i \in marked THEN "marked" ELSE "plain"]) :
        marked \in SUBSET (1..n)}

Remotes ==
    {[items |-> items, fail_page |-> fp, fail_kind |-> fk] :
        items \in UNION {ItemLists(n) : n \in 0..MaxItems},
        fp \in 0..MaxPages, fk \in FailureKinds}

FetchInputs ==
    {[per_page |-> pp, max_pages |-> mp, skip |-> sk, remote |-> r] :
        pp \in 1..MaxPerPage, mp \in 0..MaxPages, sk \in BOOLEAN,
        r \in {x \in Remotes : x.fail_page = 0 => x.fail_kind = "status"}}

\* A remote repository: a block of plain artifacts, then marked records (among
\* the issues only), then keyword-bearing ones; or a first page that fails.
Blocks(a, b, c, d) ==
    MakeList(Replicate(a, "plain") \o Replicate(b, "marked")
             \o Replicate(c, "keyword") \o Replicate(d, "rich"))

HealthyRemote(items) == [items |-> items, fail_page |-> 0, fail_kind |-> "status"]
FailingRemote(kind) == [items |-> <<>>, fail_page |-> 1, fail_kind |-> kind]

PullRemotes ==
    {HealthyRemote(Blocks(a, 0, 0, d)) : a \in 0..MaxItems, d \in 0..1}
    \cup {FailingRemote(k) : k \in FailureKinds}

IssueRemotes ==
    {HealthyRemote(Blocks(a, b, c, 0)) : a \in 0..MaxItems, b \in 0..2, c \in 0..1}
    \cup {FailingRemote(k) : k \in FailureKinds}

RepoRemotes ==
    {[pulls |-> p, issues |-> i, readme |-> r] :
        p \in PullRemotes, i \in IssueRemotes, r \in ReadmeResponses}

MaxRows == 2

LangPairs == {<<"C", "Java">>, <<"Erlang", "C">>}

RepoName(i) == "owner/repo" \o SubSeq("123456789", i, i)

\* The pairs of a row of the table: a pair of languages, or one whose second
\* language the file leaves empty.
TablePairs == LangPairs \cup {<<"C", "nan">>}

\* The table analyze_all reads: up to MaxRows repositories, each under one pair.
\* Every row has a name: a missing one is requested as repos/nan/..., which
\* the API serves no artifacts for, so its row stops at the gate.
DfInputs ==
    UNION {{[i \in 1..n |->
               [FullName |-> RepoName(i), Lang1 |-> p[i][1], Lang2 |-> p[i][2]]] :
            p \in [1..n -> TablePairs]} : n \in 0..MaxRows}

\* The repositories of a batch: around the gate on either count, with or
\* without a README that names keywords, a request that raises, a status
\* failure.
BatchRemotes ==
    {[pulls |-> p, issues |-> i, readme |-> r] :
        p \in {HealthyRemote(Blocks(n, 0, 0, 0)) : n \in {MIN_ARTIFACTS - 1, MIN_ARTIFACTS}}
              \cup {FailingRemote("exception")},
        i \in {HealthyRemote(Blocks(n, 1, 0, 0)) : n \in {MIN_ARTIFACTS - 1, MIN_ARTIFACTS}}
              \cup {FailingRemote("status")},
        r \in {StatusResponse404, InteropReadme}}

\* What the search API answers to get_total_repo_count.
PopulationResponses ==
    {[raises |-> FALSE, status_code |-> HTTP_OK, json |-> [total_count |-> c]] :
        c \in {<<>>, JsonNull, <<0>>, <<1>>, <<1000>>}}
    \cup {[raises |-> FALSE, status_code |-> 403, json |-> [total_count |-> <<>>]],
          [raises |-> TRUE, status_code |-> 0, json |-> [total_count |-> <<>>]]}

MaxPairs == 2

\* The pairs normalize_and_filter_pairs hands over; nothing makes them distinct.
FilteredInputs ==
    UNION {[1..n -> {[Lang1_norm |-> p[1], Lang2_norm |-> p[2]] : p \in LangPairs}] :
              n \in 0..MaxPairs}

\* What the search API answers to fetch_repos_for_lang.
SearchItems(names) == [i \in 1..Len(names) |-> [full_name |-> names[i]]]
SearchResponses ==
    {[raises |-> FALSE, status_code |-> HTTP_OK, json |-> [items |-> it]] :
        it \in {<<>>, JsonNull, <<SearchItems(<<RepoName(1), RepoName(2)>>)>>,
                <<SearchItems(<<RepoName(2)>>)>>}}
    \cup {[raises |-> FALSE, status_code |-> 403, json |-> [items |-> <<>>]],
          [raises |-> TRUE, status_code |-> 0, json |-> [items |-> <<>>]]}

\* What the languages endpoint answers for a candidate of the pair.
LanguageResponses(lang1, lang2) ==
    {[raises |-> FALSE, status_code |-> HTTP_OK, json |-> ls] :
        ls \in {{lang1, lang2, "Python"}, {lang1, "Python"}, {lang2}}}
    \cup {[raises |-> FALSE, status_code |-> 404, json |-> {}],
          [raises |-> TRUE, status_code |-> 0, json |-> {}]}

\* repos_to_analyze.csv before the run: absent, or left by an earlier run.
StaleRepos == <<[FullName |-> RepoName(9), Lang1 |-> "C", Lang2 |-> "Java"]>>
PriorFiles == {<<>>, <<to_csv(StaleRepos)>>}

IdleCollect ==
    /\ filtered_df = <<>> /\ pair_i = 1 /\ repos1 = <<>> /\ repos2 = <<>>
    /\ candidate_repos = <<>> /\ cand_i = 1 /\ all_repos = <<>> /\ c_pc = "idle"
    /\ output_csv = <<>> /\ before = <<>> /\ checks = <<>>

IdleText == text = Str("") /\ matched = <<>> /\ t_pc = "idle"
IdleRepo ==
    /\ repo_remote = [pulls |-> FailingRemote("status"), issues |-> FailingRemote("status"),
                      readme |-> [raises |-> TRUE, status_code |-> 0,
                                  json |-> [content |-> <<>>, encoding |-> <<>>]]]
    /\ repo = [prs |-> <<>>, issues |-> <<>>, readme |-> Str(""), result |-> RaisedResult]
    /\ r_pc = "idle"
IdleFetch ==
    /\ f_in = [per_page |-> 1, max_pages |-> 0, skip |-> FALSE,
               remote |-> [items |-> <<>>, fail_page |-> 0, fail_kind |-> "status"]]
    /\ fetch = [page |-> 1, all_items |-> <<>>, requests |-> <<>>, pc |-> "idle"]

IdleBatch ==
    /\ df = <<>> /\ row_i = 1 /\ all_results = <<>> /\ skipped_repos = 0
    /\ a_pc = "idle"
    /\ detailed_df = <<>> /\ summary = <<>>
    /\ outcomes = <<>> /\ lookups = <<>>

(***************************************************************************)
(* SpecText: analyze_text applied to one text                               *)
(***************************************************************************)
InitText ==
    /\ text \in TextInputs
    /\ matched = <<>>
    /\ t_pc = "call"
    /\ IdleFetch
    /\ IdleRepo
    /\ IdleBatch
    /\ IdleCollect

AnalyzeText ==
    /\ t_pc = "call"
    /\ matched' = analyze_text(text)
    /\ t_pc' = "done"
    /\ UNCHANGED <<text, fetchVars, repoVars, batchVars, collectVars>>

NextText == AnalyzeText

SpecText == InitText /\ [][NextText]_vars

(***************************************************************************)
(* SpecFetch: one call of fetch_paginated_artifacts, one request per step   *)
(***************************************************************************)
InitFetch ==
    /\ f_in \in FetchInputs
    /\ fetch = FetchStart(f_in.max_pages)
    /\ IdleText
    /\ IdleRepo
    /\ IdleBatch
    /\ IdleCollect

FetchPage ==
    /\ fetch.pc = "request"
    /\ fetch' = FetchIteration(fetch, Serve(f_in.remote, f_in.per_page, fetch.page),
                               f_in.per_page, f_in.max_pages, f_in.skip)
    /\ UNCHANGED <<f_in, textVars, repoVars, batchVars, collectVars>>

NextFetch == FetchPage

SpecFetch == InitFetch /\ [][NextFetch]_vars

(***************************************************************************)
(* SpecRepo: one call of analyze_repo, one fetch per step                   *)
(***************************************************************************)
InitRepo ==
    /\ repo_remote \in RepoRemotes
    /\ repo = [prs |-> <<>>, issues |-> <<>>, readme |-> Str(""), result |-> RaisedResult]
    /\ r_pc = "prs"
    /\ IdleText
    /\ IdleFetch
    /\ IdleBatch
    /\ IdleCollect

\* prs = fetch_pull_requests(repo)
RepoFetchPulls ==
    /\ r_pc = "prs"
    /\ \E f \in {fetch_pull_requests(repo_remote.pulls)} :
          IF f.pc = "raised" THEN r_pc' = "raised" /\ repo' = repo
          ELSE r_pc' = "issues" /\ repo' = [repo EXCEPT !.prs = f.all_items]
    /\ UNCHANGED <<repo_remote, textVars, fetchVars, batchVars, collectVars>>

\* issues = fetch_issues(repo)
RepoFetchIssues ==
    /\ r_pc = "issues"
    /\ \E f \in {fetch_issues(repo_remote.issues)} :
          IF f.pc = "raised" THEN r_pc' = "raised" /\ repo' = repo
          ELSE r_pc' = "readme" /\ repo' = [repo EXCEPT !.issues = f.all_items]
    /\ UNCHANGED <<repo_remote, textVars, fetchVars, batchVars, collectVars>>

\* readme = fetch_readme(repo)
RepoFetchReadme ==
    /\ r_pc = "readme"
    /\ \E f \in {fetch_readme(repo_remote.readme)} :
          IF f.raised THEN r_pc' = "raised" /\ repo' = repo
          ELSE r_pc' = "score" /\ repo' = [repo EXCEPT !.readme = f.text]
    /\ UNCHANGED <<repo_remote, textVars, fetchVars, batchVars, collectVars>>

\* The scoring loops and the return.
RepoScore ==
    /\ r_pc = "score"
    /\ repo' = [repo EXCEPT !.result = ScoreArtifacts(repo.prs, repo.issues, repo.readme)]
    /\ r_pc' = "returned"
    /\ UNCHANGED <<repo_remote, textVars, fetchVars, batchVars, collectVars>>

NextRepo == RepoFetchPulls \/ RepoFetchIssues \/ RepoFetchReadme \/ RepoScore

SpecRepo == InitRepo /\ [][NextRepo]_vars

(***************************************************************************)
(* SpecBatch: one call of analyze_all, one repository per step              *)
(***************************************************************************)
InitBatch ==
    /\ df \in DfInputs
    /\ row_i = 1 /\ all_results = <<>> /\ skipped_repos = 0
    /\ a_pc = "loop"
    /\ detailed_df = <<>> /\ summary = <<>>
    /\ outcomes = <<>> /\ lookups = <<>>
    /\ IdleText /\ IdleFetch /\ IdleRepo /\ IdleCollect

\* The body of the loop for row row_i, the remote answering as `remote`.
AnalyzeRow ==
    /\ a_pc = "loop" /\ row_i <= Len(df)
    /\ \E remote \in BatchRemotes :
          \E st \in {BatchIteration(
                        [row_i |-> row_i, all_results |-> all_results,
                         skipped_repos |-> skipped_repos, outcomes |-> outcomes,
                         a_pc |-> a_pc],
                        df[row_i], remote)} :
              /\ row_i' = st.row_i
              /\ all_results' = st.all_results
              /\ skipped_repos' = st.skipped_repos
              /\ outcomes' = st.outcomes
              /\ a_pc' = st.a_pc
    /\ UNCHANGED <<df, detailed_df, summary, lookups, textVars, fetchVars, repoVars, collectVars>>

\* detailed_df = pd.DataFrame(all_results); detailed_df.to_csv(detailed_output)
WriteDetailed ==
    /\ a_pc = "loop" /\ row_i > Len(df)
    /\ detailed_df' = all_results
    /\ a_pc' = "summarize"
    /\ UNCHANGED <<df, row_i, all_results, skipped_repos, outcomes, summary, lookups,
                   textVars, fetchVars, repoVars, collectVars>>

\* summary.apply(get_total_repo_count, axis=1) goes through the groups in key
\* order and ends at the first lookup whose request raises: resp is what the
\* API would answer each group, the result the answers actually asked for.
LookupsMade(resp) ==
    IF \E i \in 1..Len(resp) : resp[i].raises
    THEN SubSeq(resp, 1, CHOOSE i \in 1..Len(resp) :
                            /\ resp[i].raises
                            /\ \A j \in 1..(i - 1) : ~resp[j].raises)
    ELSE resp

\* groupby, one get_total_repo_count per group in key order, rarity_score,
\* summary.to_csv.  A DataFrame built from no rows has no columns: groupby
\* raises KeyError.  An exception of a lookup's request leaves analyze_all.
\* With rows but no group (every row lacks a language) summary has no row,
\* and what summary.apply does with it depends on the pandas installed: it
\* tries the lambda on a row of missing values, which makes one lookup, and
\* gives an empty column when the lookup returns; or it gives a frame, that
\* the assignment to summary['true_total_available'] rejects (ValueError),
\* when the lookup's request raises or the trial row has no 'Lang1' at all.
Summarize ==
    /\ a_pc = "summarize"
    /\ IF all_results = <<>>
       THEN a_pc' = "crashed" /\ summary' = summary /\ lookups' = lookups
       ELSE IF GroupKeys(all_results) = {}
       THEN \/ a_pc' = "crashed" /\ summary' = summary /\ lookups' = lookups
            \/ \E resp \in PopulationResponses :
                  /\ lookups' = <<resp>>
                  /\ summary' = <<>>
                  /\ a_pc' = IF resp.raises THEN "crashed" ELSE "done"
       ELSE \E resp \in [1..Cardinality(GroupKeys(all_results)) -> PopulationResponses] :
            \E got \in {[i \in DOMAIN resp |-> get_total_repo_count(resp[i])]} :
               /\ lookups' = LookupsMade(resp)
               /\ IF \E i \in DOMAIN got : got[i].raised
                  THEN a_pc' = "crashed" /\ summary' = summary
                  ELSE /\ summary' = SummaryRows(all_results,
                                                 [i \in DOMAIN got |-> got[i].count],
                                                 MAX_REPOS_ARG)
                       /\ a_pc' = "done"
    /\ UNCHANGED <<df, row_i, all_results, skipped_repos, outcomes, detailed_df,
                   textVars, fetchVars, repoVars, collectVars>>

NextBatch == AnalyzeRow \/ WriteDetailed \/ Summarize

SpecBatch == InitBatch /\ [][NextBatch]_vars

(***************************************************************************)
(* SpecCollect: one call of collect_all_repos, one request round per step   *)
(***************************************************************************)
InitCollect ==
    /\ filtered_df \in FilteredInputs
    /\ pair_i = 1 /\ repos1 = <<>> /\ repos2 = <<>>
    /\ candidate_repos = <<>> /\ cand_i = 1 /\ all_repos = <<>> /\ c_pc = "pair"
    /\ output_csv = <<>> /\ before = <<>> /\ checks = <<>>
    /\ IdleText /\ IdleFetch /\ IdleRepo /\ IdleBatch

\* The head of the outer loop's body: the two searches and the candidate list.
\* With no candidate the inner loop has no iteration.
SearchPair ==
    /\ c_pc = "pair" /\ pair_i <= Len(filtered_df)
    /\ \E resp1, resp2 \in SearchResponses :
          /\ repos1' = fetch_repos_for_lang(resp1)
          /\ repos2' = fetch_repos_for_lang(resp2)
          /\ candidate_repos' \in CandidateOrders(fetch_repos_for_lang(resp1),
                                                 fetch_repos_for_lang(resp2))
    /\ cand_i' = 1
    /\ before' = all_repos
    /\ checks' = <<>>
    /\ IF candidate_repos' = <<>>
       THEN pair_i' = pair_i + 1 /\ c_pc' = "pair"
       ELSE pair_i' = pair_i /\ c_pc' = "candidate"
    /\ UNCHANGED <<filtered_df, all_repos, output_csv,
                   textVars, fetchVars, repoVars, batchVars>>

\* The body of the inner loop for candidate cand_i; after the last candidate
\* the outer loop moves to the next pair.
CheckCandidate ==
    /\ c_pc = "candidate"
    /\ \E resp \in LanguageResponses(filtered_df[pair_i].Lang1_norm,
                                     filtered_df[pair_i].Lang2_norm) :
          /\ all_repos' = CheckCandidateStep(all_repos, candidate_repos[cand_i],
                                             filtered_df[pair_i].Lang1_norm,
                                             filtered_df[pair_i].Lang2_norm, resp)
          /\ checks' = Append(checks, [full_name |-> candidate_repos[cand_i],
                                       resp |-> resp])
    /\ cand_i' = cand_i + 1
    /\ IF cand_i = Len(candidate_repos)
       THEN pair_i' = pair_i + 1 /\ c_pc' = "pair"
       ELSE pair_i' = pair_i /\ c_pc' = "candidate"
    /\ UNCHANGED <<filtered_df, repos1, repos2, candidate_repos, output_csv, before,
                   textVars, fetchVars, repoVars, batchVars>>

\* After the last pair: the file is written if a repository was retained.
WriteOutput ==
    /\ c_pc = "pair" /\ pair_i > Len(filtered_df)
    /\ output_csv' = WriteRepos(all_repos, output_csv)
    /\ c_pc' = "done"
    /\ UNCHANGED <<filtered_df, pair_i, repos1, repos2, candidate_repos, cand_i,
                   all_repos, before, checks,
                   textVars, fetchVars, repoVars, batchVars>>

NextCollect == SearchPair \/ CheckCandidate \/ WriteOutput

SpecCollect == InitCollect /\ [][NextCollect]_vars

(***************************************************************************)
(* SpecPipeline: main, collect_all_repos and then the read of analyze_all   *)
(***************************************************************************)
MaxPipelinePairs == 1

\* The pairs of a whole run of main
PipelineInputs == {f \in FilteredInputs : Len(f) <= MaxPipelinePairs}

InitPipeline ==
    /\ filtered_df \in PipelineInputs
    /\ pair_i = 1 /\ repos1 = <<>> /\ repos2 = <<>>
    /\ candidate_repos = <<>> /\ cand_i = 1 /\ all_repos = <<>> /\ c_pc = "pair"
    /\ output_csv \in PriorFiles
    /\ before = <<>> /\ checks = <<>>
    /\ IdleText /\ IdleFetch /\ IdleRepo /\ IdleBatch

\* df = pd.read_csv(csv_path, sep=','), once collect_all_repos has returned.
\* With no file the read raises FileNotFoundError and leaves analyze_all.
ReadCsv ==
    /\ c_pc = "done" /\ a_pc = "idle"
    /\ IF output_csv = <<>>
       THEN a_pc' = "read_error" /\ df' = df
       ELSE a_pc' = "loop" /\ df' = read_csv(output_csv[1])
    /\ UNCHANGED <<row_i, all_results, skipped_repos, detailed_df, summary,
                   outcomes, lookups, textVars, fetchVars, repoVars, collectVars>>

\* main: collect_all_repos, then analyze_all whole
NextPipeline ==
    \/ SearchPair \/ CheckCandidate \/ WriteOutput
    \/ ReadCsv \/ AnalyzeRow \/ WriteDetailed \/ Summarize

SpecPipeline == InitPipeline /\ [][NextPipeline]_vars

(***************************************************************************)
(* Properties of fetch_paginated_artifacts (SpecFetch)                      *)
(***************************************************************************)
NItems == Len(f_in.remote.items)
CeilDiv(n, d) == (n + d - 1) \div d

\* The number of requests after which the loop meets a short or empty page.
RequestsToEnd == (NItems \div f_in.per_page) + 1

\* No request of this call fails, and the loop ends by a break, not by
\* running out of pages.
CleanRun ==
    /\ f_in.remote.fail_page = 0 \/ f_in.remote.fail_page > RequestsToEnd
    /\ RequestsToEnd <= f_in.max_pages

InOrder(reqs) == \A i \in 1..Len(reqs) : reqs[i] = i

\* Every page asked for before the last one asked for came back full.
NothingAfterShortPage ==
    \A i \in 1..(Len(fetch.requests) - 1) :
        LET r == Serve(f_in.remote, f_in.per_page, i)
        IN  ~r.raises /\ r.status_code = HTTP_OK /\ Len(r.json) = f_in.per_page

\* Every page is full except the last: the last page holds items, fewer than
\* per_page of them.
LastPageShort == NItems % f_in.per_page # 0

\* C1: requests go 1,2,3,... and none follows a page with fewer than P items;
\* when N items are served in pages of P, every page full except the last, and
\* the page cap is not reached, exactly ceil(N/P) requests are issued.
C1_CeilRequests ==
    /\ InOrder(fetch.requests)
    /\ NothingAfterShortPage
    /\ (fetch.pc = "done" /\ CleanRun /\ LastPageShort) =>
          Len(fetch.requests) = CeilDiv(NItems, f_in.per_page)

\* Three items in pages of two: a full page, then a page of one item.
C1_Witness ==
    /\ fetch.pc = "done" /\ CleanRun /\ LastPageShort
    /\ f_in.per_page = 2 /\ NItems = 3
    /\ fetch.requests = <<1, 2>>
    /\ Len(fetch.all_items) = NItems

\* Beside C1, for any N: a clean run issues floor(N/P) + 1 requests, which is
\* ceil(N/P) when the last page is short; when N is a multiple of P (every
\* page full, or no item at all) the page after the last full one is asked for
\* and comes back empty.
C1_FloorPlusOneRequests ==
    (fetch.pc = "done" /\ CleanRun) =>
        /\ Len(fetch.requests) = (NItems \div f_in.per_page) + 1
        /\ (~LastPageShort
              => Len(fetch.requests) = CeilDiv(NItems, f_in.per_page) + 1)

\* Two full pages and nothing else: a third request, answered by an empty page.
C1_FullLastPage ==
    /\ fetch.pc = "done" /\ CleanRun /\ ~LastPageShort
    /\ NItems = 2 * f_in.per_page
    /\ fetch.requests = <<1, 2, 3>>
    /\ Len(fetch.all_items) = NItems

\* The items of pages 1..k-1 that the skip predicate lets through, in order.
KeptBeforePage(k) ==
    SelectSeq(SubSeq(f_in.remote.items, 1, Min((k - 1) * f_in.per_page, NItems)),
              LAMBDA item : ~(f_in.skip /\ item.pull_request))

StatusFailureSeen ==
    /\ f_in.remote.fail_kind = "status"
    /\ f_in.remote.fail_page \in Range(fetch.requests)

\* C2: a non-success response on page k ends the fetch: no later page is asked
\* for, and the result is exactly the kept items of pages 1..k-1, in page order.
C2_PartialOnBadStatus ==
    StatusFailureSeen =>
        /\ fetch.pc = "done"
        /\ fetch.requests = [i \in 1..f_in.remote.fail_page |-> i]
        /\ fetch.all_items = KeptBeforePage(f_in.remote.fail_page)

C2_Witness ==
    /\ StatusFailureSeen
    /\ f_in.remote.fail_page = 3
    /\ f_in.skip
    /\ Len(fetch.all_items) >= 2
    /\ Len(fetch.all_items) < 2 * f_in.per_page

\* C4: no item the skip predicate holds of is ever in all_items; fetch_issues
\* returns no record carrying the pull-request marker; and analyze_repo counts
\* and scores the unmarked records only (the marked records of this remote are
\* the only ones whose text holds keywords).
C4_SkippedNeverReturned ==
    /\ f_in.skip =>
          \A i \in 1..Len(fetch.all_items) : ~fetch.all_items[i].pull_request
    /\ LET r == fetch_issues(f_in.remote)
       IN  \A i \in 1..Len(r.all_items) : ~r.all_items[i].pull_request
    /\ LET res == analyze_repo([pulls |-> HealthyRemote(<<>>),
                                issues |-> f_in.remote,
                                readme |-> StatusResponse(404)])
           served == IF f_in.remote.fail_page = 1 THEN <<>> ELSE f_in.remote.items
       IN  ~res.raised =>
              /\ res.issue_count =
                    Cardinality({i \in 1..Len(served) : ~served[i].pull_request})
              /\ res.score = 0

C4_Witness ==
    /\ f_in.skip /\ fetch.pc = "done"
    /\ Len(fetch.requests) = 3
    /\ f_in.remote.items[1].pull_request
    /\ f_in.remote.items[2 * f_in.per_page].pull_request
    /\ Len(fetch.all_items) >= 2
    /\ Len(fetch.all_items) < NItems

(***************************************************************************)
(* Properties of analyze_repo (SpecRepo)                                    *)
(***************************************************************************)
\* What a healthy or status-failing collection yields, read off the remote.
RemoteItems(remote) == IF remote.fail_page = 1 THEN <<>> ELSE remote.items

MatchCount(t) == Len(analyze_text_of(t))

ExpectedScore ==
    LET prs == RemoteItems(repo_remote.pulls)
        iss == SelectSeq(RemoteItems(repo_remote.issues),
                         LAMBDA x : ~x.pull_request)
    IN  SumSeq([i \in 1..Len(prs) |-> MatchCount(ArtifactText(prs[i]))])
        + SumSeq([i \in 1..Len(iss) |-> MatchCount(ArtifactText(iss[i]))])
        + MatchCount(fetch_readme(repo_remote.readme).text)

\* 6 pull requests without a match, 6 issues of which one is "wrapper", an
\* empty README.
ExampleRemote ==
    [pulls |-> HealthyRemote(Blocks(6, 0, 0, 0)),
     issues |-> HealthyRemote(Blocks(5, 0, 1, 0)),
     readme |-> OkResponse([content |-> <<Str("")>>, encoding |-> <<Str("base64")>>])]

\* C6: analyze_repo returns artifactCount = pull requests + unmarked issues + 1
\* whatever the README fetch gave, and score = the sum of the keyword matches of
\* every pull request text, every issue text and the README text; the example
\* repository scores 1 over 13 artifacts and has difficulty.
C6_CountAndScore ==
    r_pc = "returned" =>
        /\ repo.result.pr_count = Len(RemoteItems(repo_remote.pulls))
        /\ repo.result.issue_count =
              Len(SelectSeq(RemoteItems(repo_remote.issues), LAMBDA x : ~x.pull_request))
        /\ repo.result.total_artifacts =
              repo.result.pr_count + repo.result.issue_count + 1
        /\ repo.result.score = ExpectedScore
        /\ (repo_remote = ExampleRemote =>
              /\ repo.result.score = 1
              /\ repo.result.total_artifacts = 13
              /\ has_difficulty(repo.result.score))

C6_Witness ==
    /\ r_pc = "returned"
    /\ repo_remote = ExampleRemote
    /\ repo.result.total_artifacts = 13

\* C3 as stated: no transport failure (status or exception; pull requests,
\* issues, README) leaves analyze_repo: every call returns, with the failed
\* part empty.
C3_TransportFailureRecovered ==
    /\ r_pc # "raised"
    /\ r_pc = "returned" =>
          /\ (repo_remote.pulls.fail_page = 1 => repo.prs = <<>>)
          /\ (repo_remote.issues.fail_page = 1 => repo.issues = <<>>)
          /\ (repo_remote.readme.status_code # HTTP_OK => repo.readme = Str(""))

(***************************************************************************)
(* Properties of analyze_text (SpecText)                                    *)
(***************************************************************************)
\* The distinct entries of KEYWORDS that are substrings of the lowercased text.
ContainedKeywords(t) == {kw \in Range(KEYWORDS) : Contains(Lower(t), Str(kw))}

Occurrences(sq, x) == Cardinality({i \in 1..Len(sq) : sq[i] = x})

\* C5 as stated: the contribution of analyze_text for a text is the number of
\* distinct keywords its lowercased form contains, no keyword counting more
\* than once for the text (KEYWORDS being a deduplicated set).
C5_OncePerKeyword ==
    t_pc = "done" =>
        /\ Len(matched) = Cardinality(ContainedKeywords(text))
        /\ \A kw \in Range(KEYWORDS) : Occurrences(matched, kw) <= 1

(***************************************************************************)
(* Properties of analyze_all (SpecBatch)                                    *)
(***************************************************************************)
\* The input positions whose iteration appended a row, in input order.
RowPositions ==
    SelectSeq([i \in 1..Len(outcomes) |-> i], LAMBDA i : outcomes[i].kind = "row")

RowsNamed(rows, name) == Cardinality({k \in 1..Len(rows) : rows[k].FullName = name})

\* The input positions under a pair whose analysis returned both counts >= 5.
PassingUnder(l1, l2) ==
    {i \in 1..Len(outcomes) :
        /\ df[i].Lang1 = l1 /\ df[i].Lang2 = l2
        /\ outcomes[i].kind # "error"
        /\ outcomes[i].pr_count >= 5 /\ outcomes[i].issue_count >= 5}

DetailedUnder(l1, l2) ==
    SelectSeq(detailed_df, LAMBDA r : r.Lang1 = l1 /\ r.Lang2 = l2)

\* C7: a repository analysed with fewer than 5 pull requests or fewer than 5
\* issues has no row in the results or in the detailed table, and no field of a
\* summary row counts it: a summary row's sample size is the number of
\* repositories of its pair that passed the gate, its difficulty count and its
\* means are taken over their detailed rows only, and a pair none of whose
\* repositories passed has no summary row.  A repository analysed with both
\* counts at least 5 has exactly one row.
C7_GateExcludes ==
    /\ \A i \in 1..Len(outcomes) :
          outcomes[i].kind # "error" =>
             IF outcomes[i].pr_count < 5 \/ outcomes[i].issue_count < 5
             THEN /\ RowsNamed(all_results, df[i].FullName) = 0
                  /\ RowsNamed(detailed_df, df[i].FullName) = 0
             ELSE /\ RowsNamed(all_results, df[i].FullName) = 1
                  /\ (a_pc # "loop" => RowsNamed(detailed_df, df[i].FullName) = 1)
    /\ a_pc = "done" =>
          /\ \A k \in 1..Len(summary) :
                LET s == summary[k]
                    g == DetailedUnder(s.Lang1, s.Lang2)
                IN  /\ s.total_repos = Cardinality(PassingUnder(s.Lang1, s.Lang2))
                    /\ s.total_repos = Len(g)
                    /\ s.repos_with_difficulty =
                          Len(SelectSeq(g, LAMBDA r : r.repo_has_difficulty))
                    /\ s.avg_difficulty_density.den = Len(g)
                    /\ s.avg_difficulty_density.num =
                          SumSeq([j \in 1..Len(g) |-> g[j].difficulty_density])
                    /\ s.avg_artifacts_analyzed.den = Len(g)
                    /\ s.avg_artifacts_analyzed.num =
                          SumSeq([j \in 1..Len(g) |-> g[j].artifacts_analyzed])
                    /\ s.difficulty_rate.den = Len(g)
          /\ \A i \in 1..Len(df) :
                PassingUnder(df[i].Lang1, df[i].Lang2) = {} =>
                    \A k \in 1..Len(summary) :
                        <<summary[k].Lang1, summary[k].Lang2>> # <<df[i].Lang1, df[i].Lang2>>

\* Two repositories of one pair: 4 pull requests and 5 issues, then 5 and 5.
C7_Witness ==
    /\ a_pc = "done" /\ Len(df) = 2
    /\ df[1].Lang1 = df[2].Lang1 /\ df[1].Lang2 = df[2].Lang2
    /\ outcomes[1].kind = "skipped"
    /\ outcomes[1].pr_count = 4 /\ outcomes[1].issue_count = 5
    /\ outcomes[2].kind = "row"
    /\ outcomes[2].pr_count = 5 /\ outcomes[2].issue_count = 5
    /\ Len(detailed_df) = 1 /\ detailed_df[1].FullName = df[2].FullName
    /\ Len(summary) = 1 /\ summary[1].total_repos = 1

\* Two repositories past the gate, the first read with a missing language: two
\* detailed rows, one summary row counting the second repository only.
C7_RowOfNoGroup ==
    /\ a_pc = "done" /\ Len(df) = 2
    /\ IsMissing(df[1].Lang2) /\ ~IsMissing(df[2].Lang2)
    /\ outcomes[1].kind = "row" /\ outcomes[2].kind = "row"
    /\ Len(detailed_df) = 2
    /\ Len(summary) = 1 /\ summary[1].Lang2 = df[2].Lang2
    /\ summary[1].total_repos = 1

\* The population a lookup's answer reports: <<n>>, or <<>> when the lookup
\* failed.
ReportedPopulation(resp) ==
    IF resp.status_code # 200 THEN <<>>
    ELSE IF resp.json.total_count = <<>> THEN <<0>>
    ELSE IF resp.json.total_count = JsonNull THEN <<>>
    ELSE resp.json.total_count

\* v, in ten-thousandths, is n/d to four decimal places.
IsToFourPlaces(v, n, d) == 2 * (v * d - 10000 * n) \in (0 - d)..d

\* C8: in every summary row the rarity score is null exactly when the lookup of
\* the row's pair failed or reported a population that is not positive,
\* whatever the sample size; otherwise it is 1 - sample / min(population,
\* 2 * max_repos) to the four decimal places the code keeps, with no clamping:
\* it is negative when the sample exceeds the denominator.  Population 100,
\* max_repos 150 and sample 40 give 0.6000.
C8_RarityScore ==
    /\ rarity_score(40, <<100>>, 150) = <<6000>>
    /\ a_pc = "done" =>
          \A k \in 1..Len(summary) :
             LET s == summary[k]
                 pop == ReportedPopulation(lookups[k])
             IN  /\ s.true_total_available = pop
                 /\ s.rarity_score = <<>> <=> (pop = <<>> \/ pop[1] <= 0)
                 /\ s.rarity_score # <<>> =>
                       LET d == IF pop[1] < 2 * MAX_REPOS_ARG THEN pop[1]
                                ELSE 2 * MAX_REPOS_ARG
                       IN  /\ IsToFourPlaces(s.rarity_score[1], d - s.total_repos, d)
                           /\ (s.total_repos > d <=> s.rarity_score[1] < 0)

\* Two pairs: a sample of 1 out of 1000 (capped at 300) and a failed lookup.
C8_NullBesideScore ==
    /\ a_pc = "done"
    /\ Len(summary) = 2
    /\ summary[1].total_repos = 1
    /\ summary[1].true_total_available = <<1000>>
    /\ summary[1].rarity_score = <<9967>>
    /\ summary[2].rarity_score = <<>>
    /\ lookups[2].status_code # 200

\* A sample of 2 out of a population of 1: the score is -1.
C8_Witness ==
    /\ a_pc = "done"
    /\ Len(summary) = 1
    /\ summary[1].total_repos = 2
    /\ summary[1].true_total_available = <<1>>
    /\ summary[1].rarity_score = <<0 - 10000>>

\* C10: an error raised by the analysis of a repository is caught: the
\* repository gets no row, the loop goes on to every later repository in input
\* order (one outcome per position, all positions once the loop is left), and
\* the rows, in the results and in the detailed table, are the repositories
\* that got one, in input order.
C10_ErrorSkipsOneRepository ==
    /\ Len(outcomes) = row_i - 1
    /\ a_pc # "loop" => Len(outcomes) = Len(df)
    /\ \A i \in 1..Len(outcomes) :
          outcomes[i].kind = "error" => RowsNamed(all_results, df[i].FullName) = 0
    /\ Len(all_results) = Len(RowPositions)
    /\ \A k \in 1..Len(all_results) :
          /\ all_results[k].FullName = df[RowPositions[k]].FullName
          /\ all_results[k].Lang1 = df[RowPositions[k]].Lang1
          /\ all_results[k].Lang2 = df[RowPositions[k]].Lang2
    /\ a_pc \in {"summarize", "done"} => detailed_df = all_results

\* The first repository's analysis raises, the second gets its row.
C10_Witness ==
    /\ a_pc \in {"summarize", "done"} /\ Len(df) = 2
    /\ outcomes[1].kind = "error" /\ outcomes[2].kind = "row"
    /\ Len(detailed_df) = 1 /\ detailed_df[1].FullName = df[2].FullName

(***************************************************************************)
(* Properties of collect_all_repos (SpecCollect)                            *)
(***************************************************************************)
\* The pair whose candidates are the current ones: the pair being checked, or
\* the one just left.
CurrentPair ==
    filtered_df[IF c_pc = "candidate" THEN pair_i ELSE pair_i - 1]

LookupListsBoth(resp, pair) ==
    /\ ~resp.raises /\ resp.status_code = 200
    /\ pair.Lang1_norm \in resp.json /\ pair.Lang2_norm \in resp.json

\* The lookups of the current pair that succeeded and listed both languages.
QualifyingChecks ==
    SelectSeq(checks, LAMBDA c : LookupListsBoth(c.resp, CurrentPair))

PairStarted == c_pc = "candidate" \/ pair_i > 1

\* C9: the candidates of a pair are the members of the union of its two
\* per-language lists, each once; each is looked up once, a failed lookup
\* (status or exception) included, and the next one follows; the rows the pair
\* adds to all_repos are exactly the candidates whose lookup succeeded and
\* listed both languages, under the pair's languages; the pair is left only
\* when every candidate was looked up, and the loop ends only when every pair
\* was searched.
C9_RecordedAreQualifyingCandidates ==
    /\ PairStarted =>
          /\ Range(candidate_repos) = Range(repos1) \cup Range(repos2)
          /\ \A i, j \in 1..Len(candidate_repos) :
                candidate_repos[i] = candidate_repos[j] => i = j
          /\ Len(checks) = cand_i - 1
          /\ \A i \in 1..Len(checks) : checks[i].full_name = candidate_repos[i]
          /\ all_repos =
                before \o [k \in 1..Len(QualifyingChecks) |->
                              [FullName |-> QualifyingChecks[k].full_name,
                               Lang1 |-> CurrentPair.Lang1_norm,
                               Lang2 |-> CurrentPair.Lang2_norm]]
          /\ c_pc # "candidate" => Len(checks) = Len(candidate_repos)
    /\ c_pc = "done" => pair_i = Len(filtered_df) + 1
    /\ pair_i <= Len(filtered_df) + 1

\* Second pair, both lists non-empty and overlapping: the first candidate's
\* lookup raised, the second's listed both languages and is recorded.
C9_Witness ==
    /\ c_pc = "done" /\ Len(filtered_df) = 2
    /\ Len(repos1) = 2 /\ Len(repos2) = 1 /\ Len(candidate_repos) = 2
    /\ checks[1].resp.raises
    /\ LookupListsBoth(checks[2].resp, filtered_df[2])
    /\ Len(all_repos) = Len(before) + 1
    /\ all_repos[Len(all_repos)].FullName = candidate_repos[2]
    /\ output_csv = <<to_csv(all_repos)>>

(***************************************************************************)
(* Properties of the hand-off file (SpecPipeline)                           *)
(***************************************************************************)
ReadAttempted == c_pc = "done" /\ a_pc # "idle"

\* C11 as stated: whatever discovery confirmed, none included, and whatever
\* the file held before, analyze_all reads the rows collect_all_repos
\* confirmed in this run, in the same order.
C11_RoundTripExact ==
    ReadAttempted => (a_pc # "read_error" /\ df = all_repos)

\* What holds instead: the rows read are the confirmed ones when at least one
\* repository was confirmed; with none the file is not written, and the read
\* fails or returns what an earlier run left.
C11_RoundTripWhenConfirmed ==
    ReadAttempted =>
        /\ all_repos # <<>> => (a_pc # "read_error" /\ df = all_repos)
        /\ (all_repos = <<>> /\ output_csv = <<>>) => a_pc = "read_error"
        /\ (all_repos = <<>> /\ output_csv # <<>>) =>
              (a_pc # "read_error" /\ df = StaleRepos)

\* A pair searched, nothing confirmed, and the repository an earlier run left
\* analysed and summarised.
C11_StaleRead ==
    /\ ReadAttempted /\ all_repos = <<>> /\ df = StaleRepos
    /\ Len(filtered_df) = MaxPipelinePairs
    /\ a_pc = "done" /\ Len(detailed_df) = 1 /\ Len(summary) = 1

\* A run that confirmed repositories and analysed them to the end
C11_ConfirmedRead ==
    /\ ReadAttempted /\ Len(all_repos) = 2 /\ df = all_repos
    /\ a_pc = "done" /\ Len(detailed_df) = 2

(***************************************************************************)
(* Properties of analyze_all's completion (SpecBatch)                       *)
(***************************************************************************)
GroupsCountDetailedRows ==
    /\ \A k \in 1..Len(summary) : summary[k].total_repos > 0
    /\ SumSeq([k \in 1..Len(summary) |-> summary[k].total_repos]) = Len(detailed_df)

\* C12 as stated: whatever the input list, the case where no repository gets a
\* row included, analyze_all is never left by an exception, and once the
\* detailed table is written the summary table follows, its groups each
\* counting at least one repository and together counting the detailed rows.
C12_AlwaysCompletes ==
    /\ a_pc # "crashed"
    /\ a_pc = "done" => GroupsCountDetailedRows

\* The detailed rows that groupby puts in a group: both languages present.
GroupedRows ==
    SelectSeq(detailed_df, LAMBDA r : ~IsMissing(r.Lang1) /\ ~IsMissing(r.Lang2))

\* What holds instead: analyze_all is left by an exception when no repository
\* got a row (groupby on a table without columns) or a population lookup
\* raised, and possibly when no row has both its languages; otherwise the
\* summary is written, every group counts at least one repository, and the
\* groups together count the detailed rows that have both languages.
C12_CompletesWithRowsAndLookups ==
    /\ a_pc = "crashed" =>
          /\ detailed_df = all_results /\ summary = <<>>
          /\ \/ all_results = <<>>
             \/ GroupKeys(all_results) = {}
             \/ /\ lookups # <<>> /\ lookups[Len(lookups)].raises
                /\ \A k \in 1..(Len(lookups) - 1) : ~lookups[k].raises
    /\ a_pc = "done" =>
          /\ all_results # <<>>
          /\ \A k \in DOMAIN lookups : ~lookups[k].raises
          /\ \A k \in 1..Len(summary) : summary[k].total_repos > 0
          /\ SumSeq([k \in 1..Len(summary) |-> summary[k].total_repos]) = Len(GroupedRows)

\* A repository with a row but no second language: the summary is written
\* without a row for it.
C12_UngroupedRow ==
    /\ a_pc = "done" /\ Len(detailed_df) = 2 /\ Len(GroupedRows) = 1
    /\ Len(summary) = 1 /\ summary[1].total_repos = 1

\* Rows, none of them with both languages: no group.  The run is left by an
\* exception of the population column, without a summary...
C12_NoGroupCrash ==
    /\ a_pc = "crashed" /\ all_results # <<>> /\ detailed_df = all_results
    /\ GroupKeys(all_results) = {} /\ lookups = <<>>

\* ... or writes a summary of no row after one lookup made on no pair.
C12_NoGroupDone ==
    /\ a_pc = "done" /\ all_results # <<>> /\ GroupKeys(all_results) = {}
    /\ summary = <<>> /\ Len(lookups) = 1

\* Two repositories, one stopped by the gate and one whose analysis failed: no
\* row, and the summary is never written.
C12_NoRowCrash ==
    /\ a_pc = "crashed" /\ Len(df) = 2
    /\ outcomes[1].kind = "skipped" /\ outcomes[2].kind = "error"
    /\ detailed_df = <<>> /\ summary = <<>>

(***************************************************************************)
(* Properties of the short-page stop and the page cap (SpecFetch)           *)
(***************************************************************************)
\* Page i came back with status 200 and per_page items.
FullPage(i) ==
    LET r == Serve(f_in.remote, f_in.per_page, i)
    IN  ~r.raises /\ r.status_code = HTTP_OK /\ Len(r.json) = f_in.per_page

AllSkipped(i) ==
    LET r == Serve(f_in.remote, f_in.per_page, i)
    IN  f_in.skip /\ \A k \in 1..Len(r.json) : r.json[k].pull_request

\* The pages whose items were received: those asked for, up to a failing one.
PagesReceived ==
    IF f_in.remote.fail_page \in Range(fetch.requests)
    THEN f_in.remote.fail_page - 1
    ELSE Len(fetch.requests)

\* C13: the fetch stops after a page only on what was received: after a full
\* page below the cap the next page is asked for, however many of its items
\* the skip predicate kept, and a full page whose items are all skipped adds
\* nothing; the result is the kept items of the pages received; at most
\* max_pages requests are made and at most max_pages * per_page items returned.
C13_StopOnRawPageSize ==
    /\ Len(fetch.requests) <= f_in.max_pages
    /\ Len(fetch.all_items) <= f_in.max_pages * f_in.per_page
    /\ fetch.all_items = KeptBeforePage(PagesReceived + 1)
    /\ \A i \in Range(fetch.requests) :
          (FullPage(i) /\ i < f_in.max_pages) =>
              \/ i + 1 \in Range(fetch.requests)
              \/ fetch.pc = "request" /\ fetch.page = i + 1
    /\ (fetch.requests # <<>> /\ FullPage(Len(fetch.requests))
                              /\ AllSkipped(Len(fetch.requests))) =>
          fetch.all_items = KeptBeforePage(Len(fetch.requests))

\* Pages of 2, cap 2, at least 5 items: the first page is full and wholly
\* skipped, the second is asked for and kept, no third is asked for.
C13_Witness ==
    /\ fetch.pc = "done" /\ f_in.skip
    /\ f_in.per_page = 2 /\ f_in.max_pages = 2 /\ NItems >= 5
    /\ FullPage(1) /\ AllSkipped(1)
    /\ fetch.requests = <<1, 2>>
    /\ fetch.all_items = <<f_in.remote.items[3], f_in.remote.items[4]>>
====
